---- MODULE Spec2Model ----
(***************************************************************************)
(* Verification model of the resilient routing / ETA pipeline of the       *)
(* baku-reserve backend: the circuit breaker and the TTL/LRU cache (both   *)
(* imported by backend/app/gomap.py), the retry executor _post_with_retry, *)
(* and the route reconciler compute_eta_with_traffic of backend/app/maps.py*)
(***************************************************************************)
EXTENDS Integers, Sequences, FiniteSets, TLC

VARIABLES
    now,        \* wall clock, whole seconds
    breakers,   \* circuit-breaker registry: dependency name -> CircuitState
    lastCall,   \* outcome of the most recent breaker-gated call
    consec,     \* per name: failures of the wrapped function since its last success
    probeFail,  \* per name: time of the most recent failed half-open probe, or -1
    req,        \* the _post_with_retry invocation in progress (or finished)
    requests,   \* number of _post_with_retry invocations started
    entries,    \* one TTLCache: its entries, least recently touched first
    expirations,\* the cache's count of entries purged on an expired read
    lastOp,     \* the most recent cache operation and what it returned
    opCount,    \* number of cache operations so far
    written,    \* per key: the value of its latest set and the time that set plus its ttl
    touched,    \* per key: opCount of its latest set or get hit
    thr,        \* concurrent callers of route_directions: position, attempt, key, outcome
    cacheLock,  \* holder of the route cache's mutex (0: free)
    breakerLock,\* holder of the breaker's mutex (0: free)
    concCalls,  \* number of route_directions calls started by the concurrent callers
    etaIn,      \* compute_eta_with_traffic: what the two providers returned, and haversine
    etaOut,     \* compute_eta_with_traffic: settings and traffic it met, and its result
    norm,       \* parsing of one getRoute / getRouteByType reply into a GoMapRoute
    search,     \* one search_objects_smart call: position, requests issued, results
    db,         \* storage.Database: stored reservations, and the last call's outcome
    limiter,    \* utils.RateLimiter: clock, per-client history, requests in their handlers
    intent      \* llm_intent: clock, _failure_count, _disabled_until, the last call

breakerVars == <<breakers, lastCall, consec, probeFail, req, requests>>
cacheVars == <<entries, expirations, lastOp, opCount, written, touched>>
concVars == <<thr, cacheLock, breakerLock, concCalls>>
etaVars == <<etaIn, etaOut>>
appVars == <<norm, search, db, limiter, intent>>

vars == <<now, breakerVars, cacheVars, concVars, etaVars, appVars>>

\* What the actions on one component leave alone.
exceptBreaker == <<cacheVars, concVars, etaVars, appVars>>
exceptCache == <<breakerVars, concVars, etaVars, appVars>>

----------------------------------------------------------------------------
(* Bounds of the model *)

MaxTime == 8
MaxRetryTime == 620
MaxRequests == 3
MaxCacheTime == 2
MaxOps == 4
NumKeys == 3
NumThreads == 2
MaxConcCalls == 2
CacheMaxSize == 2

----------------------------------------------------------------------------
(* Circuit breaker (app.circuit_breaker, section 4.2 of the specification) *)

Names == {"gomap_api", "test_breaker"}

GOMAP_CIRCUIT_BREAKER_THRESHOLD == 3
GOMAP_CIRCUIT_BREAKER_COOLDOWN_SECONDS == 300
TestBreakerThreshold == 2
TestBreakerCooldown == 1

failure_thresholdAboveOneRequest(name) ==
    IF name = "gomap_api" THEN 4 ELSE TestBreakerThreshold

failure_threshold(name) ==
    IF name = "gomap_api" THEN GOMAP_CIRCUIT_BREAKER_THRESHOLD ELSE TestBreakerThreshold

cooldown_seconds(name) ==
    IF name = "gomap_api" THEN GOMAP_CIRCUIT_BREAKER_COOLDOWN_SECONDS ELSE TestBreakerCooldown

NewBreaker == [failure_count |-> 0, state |-> "closed", opened_at |-> 0]

\* The wrapped function's possible outcomes: a reply body, or a raised error.
Replies == {"body", "nonsuccess_body"}
Errors == {"TimeoutException", "HTTPStatusError"}
Outcomes == Replies \cup Errors

\* closed: calls pass.  open: rejected until now - opened_at >= cooldown_seconds,
\* then the next call passes as the half-open probe.
CooldownElapsedStrict(b, name, t) == t - b.opened_at > cooldown_seconds(name)

CooldownElapsed(b, name, t) == t - b.opened_at >= cooldown_seconds(name)

BreakerAllows(b, name, t) ==
    b.state = "closed" \/ (b.state = "open" /\ CooldownElapsed(b, name, t))

\* A success resets failure_count (only when there is something to reset) and closes.
RecordSuccess(b) ==
    IF b.failure_count # 0 \/ b.state # "closed"
    THEN [b EXCEPT !.failure_count = 0, !.state = "closed"]
    ELSE b

\* A failure increments failure_count; the breaker opens (opened_at = now) when the
\* threshold is reached, and re-opens when the failed call was the half-open probe.
RecordFailureOpensLate(b, name, t) ==
    LET c == b.failure_count + 1 IN
    IF b.state = "open" \/ c > failure_threshold(name)
    THEN [failure_count |-> c, state |-> "open", opened_at |-> t]
    ELSE [b EXCEPT !.failure_count = c]

RecordFailureKeepsOpenedAt(b, name, t) ==
    LET c == b.failure_count + 1 IN
    IF b.state = "open"
    THEN [b EXCEPT !.failure_count = c]
    ELSE IF c >= failure_threshold(name)
    THEN [failure_count |-> c, state |-> "open", opened_at |-> t]
    ELSE [b EXCEPT !.failure_count = c]

RecordFailure(b, name, t) ==
    LET c == b.failure_count + 1 IN
    IF b.state = "open" \/ c >= failure_threshold(name)
    THEN [failure_count |-> c, state |-> "open", opened_at |-> t]
    ELSE [b EXCEPT !.failure_count = c]

\* CircuitBreaker.call(func): the new CircuitState, whether func ran, and what the
\* caller gets (func's reply, func's error, or CircuitOpenError).
BreakerCall(b, name, t, outcome) ==
    IF ~BreakerAllows(b, name, t)
    THEN [breaker |-> b, invoked |-> FALSE, result |-> "CircuitOpenError"]
    ELSE IF outcome \in Replies
    THEN [breaker |-> RecordSuccess(b), invoked |-> TRUE, result |-> outcome]
    ELSE [breaker |-> RecordFailure(b, name, t), invoked |-> TRUE, result |-> outcome]

\* What an observer of one call sees: the state it found, when it was made, what the
\* wrapped function would do, whether it ran, and what the caller got.
NoCall == [name |-> "none", wasOpen |-> FALSE, openedBefore |-> 0, at |-> 0,
           prevProbeFail |-> -1, outcome |-> "none", invoked |-> FALSE, result |-> "none"]

CallRecord(b, name, t, pf, outcome, r) ==
    [name |-> name, wasOpen |-> b.state = "open", openedBefore |-> b.opened_at, at |-> t,
     prevProbeFail |-> pf, outcome |-> outcome, invoked |-> r.invoked, result |-> r.result]

ConsecAfter(c, outcome, r) ==
    IF ~r.invoked THEN c ELSE IF outcome \in Replies THEN 0 ELSE c + 1

ProbeFailAfter(pf, b, t, outcome, r) ==
    IF b.state = "open" /\ r.invoked /\ outcome \in Errors THEN t ELSE pf

----------------------------------------------------------------------------
(* Retry executor: gomap._post_with_retry *)

GOMAP_RETRY_ATTEMPTS == 2
GOMAP_RETRY_BACKOFF_SECONDS == 1
GOMAP_CACHE_TTL_SECONDS == 900

RoutePath == "getRoute"
TrafficPath == "getTrafficTilesByCoord"
Paths == {RoutePath, TrafficPath}

\* Every path goes through with_circuit_breaker(_post_internal, "gomap_api", ...).
BreakerNameFor(path) == "gomap_api"

RECURSIVE Pow2(_)
Pow2(n) == IF n = 0 THEN 1 ELSE 2 * Pow2(n - 1)

\* sleep_time = backoff * (2 ** (attempt - 1))
SleepTime(attempt) == GOMAP_RETRY_BACKOFF_SECONDS * Pow2(attempt - 1)

IdleReq == [pc |-> "idle", path |-> "none", attempt |-> 0, last_error |-> "none",
            log |-> <<>>, sleeps |-> <<>>, result |-> "none", startedOpen |-> FALSE]

\* The try/except of one loop iteration, given what with_circuit_breaker produced.
RetryStepRetriesOpenCircuit(r, res) ==
    LET logged == [r EXCEPT !.log = Append(r.log, res)] IN
    IF res \in Replies
    THEN [logged EXCEPT !.pc = "done", !.result = res]
    ELSE IF r.attempt < GOMAP_RETRY_ATTEMPTS
    THEN [logged EXCEPT !.last_error = res, !.attempt = r.attempt + 1, !.pc = "sleep"]
    ELSE [logged EXCEPT !.last_error = res, !.pc = "done", !.result = res]

RetryStepRaisesFirstError(r, res) ==
    LET logged == [r EXCEPT !.log = Append(r.log, res)]
        first == IF r.last_error = "none" THEN res ELSE r.last_error IN
    IF res \in Replies
    THEN [logged EXCEPT !.pc = "done", !.result = res]
    ELSE IF res = "CircuitOpenError"
    THEN [logged EXCEPT !.pc = "done", !.result = res]
    ELSE IF r.attempt < GOMAP_RETRY_ATTEMPTS
    THEN [logged EXCEPT !.last_error = first, !.attempt = r.attempt + 1, !.pc = "sleep"]
    ELSE [logged EXCEPT !.last_error = first, !.pc = "done", !.result = first]

RetryStepRetriesNonSuccess(r, res) ==
    LET logged == [r EXCEPT !.log = Append(r.log, res)] IN
    IF res = "body"
    THEN [logged EXCEPT !.pc = "done", !.result = res]
    ELSE IF res = "CircuitOpenError"
    THEN [logged EXCEPT !.pc = "done", !.result = res]
    ELSE IF r.attempt < GOMAP_RETRY_ATTEMPTS
    THEN [logged EXCEPT !.last_error = res, !.attempt = r.attempt + 1, !.pc = "sleep"]
    ELSE [logged EXCEPT !.last_error = res, !.pc = "done", !.result = res]

RetryStep(r, res) ==
    LET logged == [r EXCEPT !.log = Append(r.log, res)] IN
    IF res \in Replies
    THEN [logged EXCEPT !.pc = "done", !.result = res]                \* return
    ELSE IF res = "CircuitOpenError"
    THEN [logged EXCEPT !.pc = "done", !.result = res]                \* raise, no retry
    ELSE IF r.attempt < GOMAP_RETRY_ATTEMPTS
    THEN [logged EXCEPT !.last_error = res, !.attempt = r.attempt + 1, !.pc = "sleep"]
    ELSE [logged EXCEPT !.last_error = res, !.pc = "done", !.result = res]  \* raise last_error

----------------------------------------------------------------------------
(* TTL/LRU cache (app.cache.TTLCache, section 4.1 of the specification) *)

Keys == 1..NumKeys
Values == {"v1", "v2"}
TTLs == {1, 2}
Absent == "absent"

NoOp == [op |-> "none", key |-> 0, result |-> Absent]

RECURSIVE IndexOf(_, _, _)
IndexOf(es, k, i) ==
    IF i > Len(es) THEN 0 ELSE IF es[i].key = k THEN i ELSE IndexOf(es, k, i + 1)

Without(es, i) == [j \in 1..(Len(es) - 1) |-> IF j < i THEN es[j] ELSE es[j + 1]]

CachedKeys(es) == {es[i].key : i \in 1..Len(es)}

EntryOf(es, k) == es[IndexOf(es, k, 1)]

\* An entry is expired once now >= expires_at.
ExpiredStrict(e, t) == t > e.expires_at

Expired(e, t) == t >= e.expires_at

\* get(key): absent on a missing key; an expired entry is purged and counted; a live
\* entry is moved to the most-recently-used end and its value returned.
CacheGetNoTouch(es, k, t) ==
    LET i == IndexOf(es, k, 1) IN
    IF i = 0
    THEN [entries |-> es, result |-> Absent, expired |-> 0]
    ELSE IF Expired(es[i], t)
    THEN [entries |-> Without(es, i), result |-> Absent, expired |-> 1]
    ELSE [entries |-> es, result |-> es[i].value, expired |-> 0]

CacheGet(es, k, t) ==
    LET i == IndexOf(es, k, 1) IN
    IF i = 0
    THEN [entries |-> es, result |-> Absent, expired |-> 0]
    ELSE IF Expired(es[i], t)
    THEN [entries |-> Without(es, i), result |-> Absent, expired |-> 1]
    ELSE [entries |-> Append(Without(es, i), es[i]), result |-> es[i].value, expired |-> 0]

\* LRU eviction: drop least-recently-used entries while the size cap is exceeded.
RECURSIVE Evict(_)
Evict(es) == IF Len(es) > CacheMaxSize THEN Evict(Tail(es)) ELSE es

\* set(key, value, ttl): insert or overwrite as most recently used, then evict.
CacheSet(es, k, v, ttl, t) ==
    LET i == IndexOf(es, k, 1)
        rest == IF i = 0 THEN es ELSE Without(es, i) IN
    Evict(Append(rest, [key |-> k, value |-> v, expires_at |-> t + ttl]))

InitCache ==
    /\ entries = <<>>
    /\ expirations = 0
    /\ lastOp = NoOp
    /\ opCount = 0
    /\ written = [k \in Keys |-> [value |-> Absent, deadline |-> 0]]
    /\ touched = [k \in Keys |-> 0]

\* Keys are interchangeable: the callers' first use of a new key takes the least unused one.
KnownOrNext(k) == \A j \in 1..(k - 1) : written[j].value # Absent

Get(k) ==
    LET r == CacheGet(entries, k, now) IN
    /\ opCount < MaxOps
    /\ KnownOrNext(k)
    /\ opCount' = opCount + 1
    /\ entries' = r.entries
    /\ expirations' = expirations + r.expired
    /\ lastOp' = [op |-> "get", key |-> k, result |-> r.result]
    /\ touched' = IF r.result # Absent THEN [touched EXCEPT ![k] = opCount + 1] ELSE touched
    /\ UNCHANGED <<now, written, exceptCache>>

Set(k, v, ttl) ==
    /\ opCount < MaxOps
    /\ KnownOrNext(k)
    /\ opCount' = opCount + 1
    /\ entries' = CacheSet(entries, k, v, ttl, now)
    /\ lastOp' = [op |-> "set", key |-> k, result |-> v]
    /\ written' = [written EXCEPT ![k] = [value |-> v, deadline |-> now + ttl]]
    /\ touched' = [touched EXCEPT ![k] = opCount + 1]
    /\ UNCHANGED <<now, expirations, exceptCache>>

\* time.sleep between cache operations
CacheTick ==
    /\ now < MaxCacheTime
    /\ now' = now + 1
    /\ UNCHANGED <<cacheVars, exceptCache>>

NextCache ==
    \/ \E k \in Keys : Get(k)
    \/ \E k \in Keys, v \in Values, ttl \in TTLs : Set(k, v, ttl)
    \/ CacheTick

----------------------------------------------------------------------------
(* Concurrent callers: gomap.route_directions run by several threads.  Each mutex
   is taken for one in-memory operation of the cache or of the breaker; the clock
   is not advanced here, so no TTL or cooldown elapses. *)

Threads == 1..NumThreads
ConcKeys == {1, 2}

IdleThread == [pc |-> "idle", attempt |-> 0, key |-> 0, outcome |-> "none"]

InitConc ==
    /\ thr = [t \in Threads |-> IdleThread]
    /\ cacheLock = 0
    /\ breakerLock = 0
    /\ concCalls = 0

\* The breaker's mutex is released before the wrapped function is called.
LockHeldAcrossCall(t) == t

LockAfterGate(t) == 0

\* route_directions(origin, dest) is called
Begin(t, k) ==
    /\ thr[t].pc = "idle"
    /\ concCalls < MaxConcCalls
    /\ concCalls' = concCalls + 1
    /\ thr' = [thr EXCEPT ![t] = [IdleThread EXCEPT !.pc = "cache_get", !.key = k]]
    /\ UNCHANGED <<now, cacheLock, breakerLock, breakerVars, cacheVars, etaVars, appVars>>

\* entering get_cached_route / cache_route: the cache's mutex is taken
AcquireCache(t) ==
    /\ thr[t].pc \in {"cache_get", "cache_set"}
    /\ cacheLock = 0
    /\ cacheLock' = t
    /\ thr' = [thr EXCEPT ![t].pc = IF thr[t].pc = "cache_get" THEN "cache_get_cs"
                                                                ELSE "cache_set_cs"]
    /\ UNCHANGED <<now, breakerLock, concCalls, breakerVars, cacheVars, etaVars, appVars>>

\* get_cached_route: a hit is returned at once, a miss goes on to _post
CacheRead(t) ==
    LET r == CacheGet(entries, thr[t].key, now) IN
    /\ thr[t].pc = "cache_get_cs"
    /\ entries' = r.entries
    /\ expirations' = expirations + r.expired
    /\ cacheLock' = 0
    /\ thr' = [thr EXCEPT ![t].pc = IF r.result # Absent THEN "idle" ELSE "breaker_check"]
    /\ UNCHANGED <<now, breakerLock, concCalls, breakerVars, lastOp, opCount, written, touched,
                   etaVars, appVars>>

\* cache_route(origin, dest, route)
CacheWrite(t) ==
    /\ thr[t].pc = "cache_set_cs"
    /\ entries' = CacheSet(entries, thr[t].key, "v1", GOMAP_CACHE_TTL_SECONDS, now)
    /\ cacheLock' = 0
    /\ thr' = [thr EXCEPT ![t] = IdleThread]
    /\ UNCHANGED <<now, breakerLock, concCalls, breakerVars, expirations, lastOp, opCount,
                   written, touched, etaVars, appVars>>

\* time.sleep(sleep_time) returns
SleepDone(t) ==
    /\ thr[t].pc = "sleep"
    /\ thr' = [thr EXCEPT ![t].pc = "breaker_check"]
    /\ UNCHANGED <<now, cacheLock, breakerLock, concCalls, breakerVars, cacheVars, etaVars, appVars>>

\* with_circuit_breaker: the breaker's mutex is taken to read or to update its state
AcquireBreaker(t) ==
    /\ thr[t].pc \in {"breaker_check", "breaker_record"}
    /\ breakerLock = 0
    /\ breakerLock' = t
    /\ thr' = [thr EXCEPT ![t].pc = IF thr[t].pc = "breaker_check" THEN "breaker_check_cs"
                                                                    ELSE "breaker_record_cs"]
    /\ UNCHANGED <<now, cacheLock, concCalls, breakerVars, cacheVars, etaVars, appVars>>

\* the gate: CircuitOpenError (route_directions returns None) or on to the HTTP call
BreakerGate(t) ==
    LET name == BreakerNameFor(RoutePath) IN
    /\ thr[t].pc = "breaker_check_cs"
    /\ breakerLock' = LockAfterGate(t)
    /\ thr' = [thr EXCEPT ![t] = IF BreakerAllows(breakers[name], name, now)
                                 THEN [@ EXCEPT !.pc = "http"]
                                 ELSE IdleThread]
    /\ UNCHANGED <<now, cacheLock, concCalls, breakerVars, cacheVars, etaVars, appVars>>

\* _post_internal: httpx.post returns or raises
HttpDone(t, outcome) ==
    /\ thr[t].pc = "http"
    /\ thr' = [thr EXCEPT ![t].pc = "breaker_record", ![t].outcome = outcome]
    /\ UNCHANGED <<now, cacheLock, breakerLock, concCalls, breakerVars, cacheVars, etaVars, appVars>>

\* the breaker records the outcome; _post_with_retry returns, retries or gives up;
\* route_directions caches a successful body and returns None otherwise
BreakerRecord(t) ==
    LET name == BreakerNameFor(RoutePath)
        o == thr[t].outcome
        step == RetryStep([IdleReq EXCEPT !.attempt = thr[t].attempt], o) IN
    /\ thr[t].pc = "breaker_record_cs"
    /\ breakers' = [breakers EXCEPT ![name] =
                      IF o \in Replies THEN RecordSuccess(@) ELSE RecordFailure(@, name, now)]
    /\ breakerLock' = 0
    /\ thr' = [thr EXCEPT ![t] =
                 IF step.pc = "sleep" THEN [@ EXCEPT !.pc = "sleep", !.attempt = step.attempt]
                 ELSE IF step.result = "body" THEN [@ EXCEPT !.pc = "cache_set"]
                 ELSE IdleThread]
    /\ UNCHANGED <<now, cacheLock, concCalls, lastCall, consec, probeFail, req, requests,
                   cacheVars, etaVars, appVars>>

NextConc ==
    \/ \E t \in Threads, k \in ConcKeys : Begin(t, k)
    \/ \E t \in Threads : AcquireCache(t)
    \/ \E t \in Threads : CacheRead(t)
    \/ \E t \in Threads : CacheWrite(t)
    \/ \E t \in Threads : SleepDone(t)
    \/ \E t \in Threads : AcquireBreaker(t)
    \/ \E t \in Threads : BreakerGate(t)
    \/ \E t \in Threads, o \in Outcomes : HttpDone(t, o)
    \/ \E t \in Threads : BreakerRecord(t)

----------------------------------------------------------------------------
(* Route reconciler and traffic-aware ETA: maps.compute_eta_with_traffic.
   Distances are in metres (distance_km * 1000), durations in seconds. *)

NoneVal == -1              \* Python None in a numeric field
NoneStr == "None"          \* Python None in a text field

MAP_DISTANCE_TOLERANCE_PCT == 25
MAP_HAVERSINE_TOLERANCE_PCT == 35
ETA_HEAVY_BUFFER_MINUTES == 2

\* settings.parsed_traffic_delay_factors, in hundredths
DelayFactorPct(condition) ==
    CASE condition = "smooth" -> 100
      [] condition = "moderate" -> 112
      [] condition = "heavy" -> 125
      [] condition = "severe" -> 140
      [] OTHER -> 100

NoRoute == [present |-> FALSE, distance_km |-> NoneVal, duration_seconds |-> NoneVal,
            geometry |-> NoneStr, notice |-> NoneStr]

GomapRoutes ==
    {NoRoute} \cup
    [present : {TRUE}, distance_km : {NoneVal, 0, 5200, 10200, 15000},
     duration_seconds : {NoneVal, 1, 90, 600}, geometry : {NoneStr, "gomap_geometry"},
     notice : {"gomap_notice"}]

OsrmRoutes ==
    {NoRoute} \cup
    [present : {TRUE}, distance_km : {NoneVal, 0, 5300, 10200},
     duration_seconds : {NoneVal, 0, 620}, geometry : {NoneStr, "osrm_geometry"},
     notice : {"osrm_notice"}]

HaversineValues == {0, 1300, 10000}

\* What gomap_traffic can do at one endpoint: raise, return None, or return a snapshot
\* with severity None or 0..4 (encoded NoneVal, 0..4).
TrafficRaises == -3
TrafficAbsent == -2
TrafficOutcomes == {TrafficRaises, TrafficAbsent, NoneVal, 0, 1, 2, 3, 4}

\* TRAFFIC_DELAY_FACTORS as shipped, or overridden with "smooth=0.8"
DelayFactorTables == {"default", "smooth_discount"}

EtaSettings == [GOMAP_TRAFFIC_ENABLED : BOOLEAN, ETA_BUFFER_MINUTES : {0, 5},
                TRAFFIC_DELAY_FACTORS : DelayFactorTables]

\* delays.get(traffic_condition, 1.0) under the configured table, in hundredths
ConfiguredFactorPct(cfg, condition) ==
    IF cfg.TRAFFIC_DELAY_FACTORS = "smooth_discount" /\ condition = "smooth" THEN 80
    ELSE DelayFactorPct(condition)

Abs(x) == IF x < 0 THEN -x ELSE x
Max2(a, b) == IF a >= b THEN a ELSE b
CeilDiv(a, b) == (a + b - 1) \div b

\* Python truthiness of an optional number
Truthy(x) == x # NoneVal /\ x # 0

\* _distance_error(distance) > tolerance, with the error None (never over) when the
\* distance is None or haversine_km is 0
DistanceErrorOver(distance, haversine, tolerancePct) ==
    /\ distance # NoneVal
    /\ haversine # 0
    /\ Abs(distance - haversine) * 100 > tolerancePct * Max2(haversine, 1)

\* dist_diff = abs(gomap - osrm) / max(osrm, 1e-3) > MAP_DISTANCE_TOLERANCE
DistDiffOver(g, o) == Abs(g - o) * 100 > MAP_DISTANCE_TOLERANCE_PCT * Max2(o, 1)

SumOfDurations(a, b) == a + b

\* int(round((a + b) / 2)): Python rounds a half to the even neighbour
RoundedMean(a, b) ==
    LET lo == (a + b) \div 2 IN
    IF (a + b) % 2 = 0 THEN lo ELSE IF lo % 2 = 0 THEN lo ELSE lo + 1

\* The choice of base_route, base_provider and calibration_note (maps.py 78-104)
Reconcile(gomap, osrm, haversine) ==
    LET first == IF gomap.present THEN gomap ELSE osrm
        firstProvider == IF gomap.present THEN "gomap" ELSE "osrm"
        gomap_far == DistanceErrorOver(gomap.distance_km, haversine, MAP_HAVERSINE_TOLERANCE_PCT)
        osrm_far == DistanceErrorOver(osrm.distance_km, haversine, MAP_HAVERSINE_TOLERANCE_PCT)
    IN
    IF gomap.present /\ osrm.present /\ Truthy(gomap.distance_km) /\ Truthy(osrm.distance_km)
    THEN IF gomap_far /\ ~osrm_far
         THEN [base_route |-> osrm, base_provider |-> "osrm",
               calibration_note |-> "calibrated via OSRM (GoMap distance high)"]
         ELSE IF DistDiffOver(gomap.distance_km, osrm.distance_km)
                 /\ osrm.distance_km < gomap.distance_km
         THEN [base_route |-> osrm, base_provider |-> "osrm",
               calibration_note |-> "calibrated via OSRM (delta)"]
         ELSE [base_route |->
                 IF Truthy(gomap.duration_seconds) /\ Truthy(osrm.duration_seconds)
                 THEN [gomap EXCEPT !.duration_seconds =
                         RoundedMean(gomap.duration_seconds, osrm.duration_seconds)]
                 ELSE gomap,
               base_provider |-> "gomap", calibration_note |-> NoneStr]
    ELSE [base_route |-> first, base_provider |-> firstProvider, calibration_note |-> NoneStr]

\* duration_seconds (maps.py 111-115)
BaseDuration(base_route, gomap, osrm) ==
    IF Truthy(base_route.duration_seconds) THEN base_route.duration_seconds
    ELSE IF osrm.present THEN osrm.duration_seconds
    ELSE IF gomap.present THEN gomap.duration_seconds
    ELSE NoneVal

\* distance_km (maps.py 106-110)
BaseDistance(base_route, osrm) ==
    IF base_route.distance_km # NoneVal THEN base_route.distance_km
    ELSE IF osrm.present THEN osrm.distance_km
    ELSE NoneVal

TrafficSeverityLastWins(originTraffic, destTraffic) ==
    IF destTraffic > 0 THEN destTraffic ELSE IF originTraffic > 0 THEN originTraffic ELSE 0

\* traffic_severity: the worse of the two endpoints, a missing snapshot or a falsy
\* severity counting for nothing
TrafficSeverity(originTraffic, destTraffic) ==
    LET fromOrigin == IF originTraffic > 0 THEN originTraffic ELSE 0 IN
    IF destTraffic > 0 THEN Max2(fromOrigin, destTraffic) ELSE fromOrigin

ConditionOf(severity) ==
    CASE severity = 1 -> "smooth"
      [] severity = 2 -> "moderate"
      [] severity = 3 -> "heavy"
      [] OTHER -> "severe"

\* int(base_eta_seconds * delay_factor): the product is formed in binary floating point,
\* which for the factor 1.4 falls just short of these whole-number products.
FloatShort140 == {45, 85, 90, 165, 170, 175, 180, 325, 330, 335, 340, 345, 350, 355, 360, 365}

DividedByFactor(seconds, factorPct) == (seconds * 100) \div factorPct

TruncatedProduct(seconds, factorPct) ==
    LET exact == (seconds * factorPct) \div 100 IN
    IF factorPct = 140 /\ seconds \in FloatShort140 THEN exact - 1 ELSE exact

NoEta == [kind |-> "None"]

\* base_eta_seconds and base_eta_minutes
BaseEtaSeconds(duration) == Max2(1, duration)
BaseEtaMinutes(base_eta_seconds) == Max2(1, CeilDiv(base_eta_seconds, 60))

TrafficConditionKeptOnRaise(attempted, raised, originTraffic, destTraffic) ==
    LET severity == TrafficSeverity(originTraffic, destTraffic) IN
    IF ~attempted THEN NoneStr
    ELSE IF severity > 0 THEN ConditionOf(severity) ELSE "unknown"

\* traffic_condition as the try block leaves it: untouched (None) when traffic is not
\* attempted or a lookup raises, else named after the severity, or "unknown"
TrafficConditionOf(attempted, raised, originTraffic, destTraffic) ==
    LET severity == TrafficSeverity(originTraffic, destTraffic) IN
    IF ~attempted \/ raised THEN NoneStr
    ELSE IF severity > 0 THEN ConditionOf(severity) ELSE "unknown"

BufferMinutesAlwaysHeavy(cfg, condition) ==
    cfg.ETA_BUFFER_MINUTES + ETA_HEAVY_BUFFER_MINUTES

\* buffer_minutes
BufferMinutes(cfg, condition) ==
    cfg.ETA_BUFFER_MINUTES
      + (IF condition \in {"heavy", "severe"} THEN ETA_HEAVY_BUFFER_MINUTES ELSE 0)

\* geometry
RouteGeometry(gomap, osrm) ==
    IF gomap.present /\ gomap.geometry # NoneStr THEN gomap.geometry ELSE osrm.geometry

ComputeEta(gomap, osrm, haversine, cfg, originTraffic, destTraffic) ==
    LET rec == Reconcile(gomap, osrm, haversine)
        distance == BaseDistance(rec.base_route, osrm)
        duration == BaseDuration(rec.base_route, gomap, osrm)
        base_eta_seconds == BaseEtaSeconds(duration)
        base_eta_minutes == BaseEtaMinutes(base_eta_seconds)
        attempted == cfg.GOMAP_TRAFFIC_ENABLED /\ gomap.present
        raised == originTraffic = TrafficRaises \/ destTraffic = TrafficRaises
        condition == TrafficConditionOf(attempted, raised, originTraffic, destTraffic)
        factor == ConfiguredFactorPct(cfg, condition)
        adjust == condition \notin {NoneStr, "unknown"} /\ factor > 100
        adjusted_seconds == TruncatedProduct(base_eta_seconds, factor)
        buffer_minutes == BufferMinutes(cfg, condition)
        seconds == IF adjust THEN adjusted_seconds ELSE base_eta_seconds
        minutes == IF adjust THEN Max2(1, CeilDiv(adjusted_seconds, 60)) ELSE base_eta_minutes
    IN
    IF ~gomap.present /\ ~osrm.present THEN NoEta
    ELSE IF duration = NoneVal THEN NoEta
    ELSE [kind |-> "EtaComputation",
          eta_minutes |-> IF buffer_minutes > 0 THEN minutes + buffer_minutes ELSE minutes,
          eta_seconds |-> IF buffer_minutes > 0 THEN seconds + buffer_minutes * 60 ELSE seconds,
          route_distance_km |-> distance,
          typical_eta_minutes |-> base_eta_minutes,
          traffic_condition |-> condition,
          traffic_delay_minutes |->
              IF adjust THEN Max2(0, CeilDiv(adjusted_seconds - base_eta_seconds, 60))
              ELSE NoneVal,
          route_summary |-> IF gomap.present THEN gomap.notice ELSE osrm.notice,
          route_geometry |-> RouteGeometry(gomap, osrm),
          provider |-> rec.base_provider,
          calibration_note |-> rec.calibration_note,
          duration_seconds |-> duration]

\* round(distance_km, 2), in metres: the nearest multiple of ten, a half going to the
\* even hundredth
RoundToHundredthKm(distance) ==
    LET tens == distance \div 10
        rest == distance % 10
    IN IF rest > 5 \/ (rest = 5 /\ tens % 2 = 1) THEN (tens + 1) * 10 ELSE tens * 10

\* build_fallback_eta(distance_km, fallback_minutes); the distance in metres
BuildFallbackEta(distance, fallback_minutes) ==
    [kind |-> "EtaComputation",
     eta_minutes |-> fallback_minutes,
     eta_seconds |-> Max2(1, fallback_minutes * 60),
     route_distance_km |-> RoundToHundredthKm(distance),
     typical_eta_minutes |-> NoneVal,
     traffic_condition |-> NoneStr,
     traffic_delay_minutes |-> NoneVal,
     route_summary |-> NoneStr,
     route_geometry |-> NoneStr,
     provider |-> "fallback",
     calibration_note |-> NoneStr,
     duration_seconds |-> NoneVal]

FallbackMinutes == {0, 1, 5, 12}

NoEtaInput == [gomap |-> NoRoute, osrm |-> NoRoute, haversine_km |-> 0]
EtaPending == [called |-> FALSE]

InitEtaIdle ==
    /\ etaIn = NoEtaInput
    /\ etaOut = EtaPending

\* The two providers' answers and the straight-line distance of one request.
InitEtaInputs ==
    /\ etaIn \in [gomap : GomapRoutes, osrm : OsrmRoutes, haversine_km : HaversineValues]
    /\ etaOut = EtaPending

\* compute_eta_with_traffic(origin, destination), under the settings in force and with
\* whatever the two traffic lookups do when they are made
TrafficLookedUp(cfg) ==
    /\ cfg.GOMAP_TRAFFIC_ENABLED
    /\ etaIn.gomap.present
    /\ BaseDuration(Reconcile(etaIn.gomap, etaIn.osrm, etaIn.haversine_km).base_route,
                    etaIn.gomap, etaIn.osrm) # NoneVal

ComputeEtaWithTraffic(cfg, originTraffic, destTraffic) ==
    /\ ~etaOut.called
    /\ TrafficLookedUp(cfg) \/ (originTraffic = TrafficAbsent /\ destTraffic = TrafficAbsent)
    /\ originTraffic = TrafficRaises => destTraffic = TrafficAbsent
    /\ etaOut' = [called |-> TRUE, settings |-> cfg, origin_traffic |-> originTraffic,
                  dest_traffic |-> destTraffic,
                  result |-> ComputeEta(etaIn.gomap, etaIn.osrm, etaIn.haversine_km, cfg,
                                        originTraffic, destTraffic),
                  fallback |-> NoEta]
    /\ UNCHANGED <<now, etaIn, breakerVars, cacheVars, concVars, appVars>>

\* The caller's substitute when compute_eta_with_traffic returned None
BuildFallback(fallback_minutes) ==
    /\ etaOut.called
    /\ etaOut.result.kind = "None"
    /\ etaOut.fallback.kind = "None"
    /\ etaOut' = [etaOut EXCEPT
                    !.fallback = BuildFallbackEta(IF etaIn.haversine_km # 0
                                                  THEN etaIn.haversine_km ELSE 1000,
                                                  fallback_minutes)]
    /\ UNCHANGED <<now, etaIn, breakerVars, cacheVars, concVars, appVars>>

\* Reconciliation over every pair of provider answers, the traffic lookups failing,
\* finding nothing or finding heavy traffic
ReconcilerTraffic == {TrafficRaises, TrafficAbsent, 3}

NextEta ==
    \/ \E cfg \in EtaSettings, ot \in ReconcilerTraffic, dt \in ReconcilerTraffic :
          ComputeEtaWithTraffic(cfg, ot, dt)
    \/ \E m \in FallbackMinutes : BuildFallback(m)

\* Traffic adjustment over every pair of traffic outcomes, for routes of 1, 90, 600 and
\* 620 seconds
TrafficGomapRoutes ==
    {NoRoute} \cup {r \in GomapRoutes :
                      r.present /\ r.distance_km = 5200 /\ r.geometry = "gomap_geometry"}

TrafficOsrmRoutes ==
    {NoRoute} \cup {r \in OsrmRoutes :
                      /\ r.present /\ r.distance_km = 5300 /\ r.geometry = "osrm_geometry"
                      /\ r.duration_seconds # NoneVal}

InitTrafficInputs ==
    /\ etaIn \in [gomap : TrafficGomapRoutes, osrm : TrafficOsrmRoutes, haversine_km : {1300}]
    /\ etaOut = EtaPending

NextTraffic ==
    \/ \E cfg \in EtaSettings, ot \in TrafficOutcomes, dt \in TrafficOutcomes :
          ComputeEtaWithTraffic(cfg, ot, dt)
    \/ \E m \in FallbackMinutes : BuildFallback(m)

----------------------------------------------------------------------------
(* The components below start idle in every specification that is not about them. *)

NormPending == [parsed |-> FALSE]

InitNormIdle == norm = NormPending

SearchIdle ==
    [pc |-> "idle", limit |-> 0, use_fuzzy_fallback |-> FALSE, distance_reply |-> "none",
     requests |-> <<>>, invoked |-> <<>>, exact_results |-> <<>>, results |-> <<>>]

InitSearchIdle == search = SearchIdle

NoDbCall == [op |-> "none", code |-> 0, id |-> 0, table_id |-> "None", party_size |-> 0,
             start |-> 0, end |-> 0]

\* Database(): no reservations stored
InitDb == db = [reservations |-> <<>>, ids |-> 0, last |-> NoDbCall]

Clients == {"10.0.0.1", "10.0.0.2"}

NoDispatch == [client |-> "none", code |-> 0]

\* RateLimiter(): no history
InitLimiter ==
    limiter = [clock |-> 0, history |-> [c \in Clients |-> <<>>],
               admitted |-> [c \in Clients |-> <<>>], handling |-> [c \in Clients |-> 0],
               last |-> NoDispatch]

NoIntentCall == [outcome |-> "none", invoked |-> FALSE, raised |-> "none"]

\* llm_intent as imported: _failure_count = 0, _disabled_until = 0.0
InitIntent ==
    intent = [clock |-> 0, failure_count |-> 0, disabled_until |-> 0, calls |-> 0,
              streak |-> 0, failed_at |-> 0, last |-> NoIntentCall]

InitAppIdle == InitNormIdle /\ InitSearchIdle /\ InitDb /\ InitLimiter /\ InitIntent

----------------------------------------------------------------------------
(* Actions *)

InitBreakers ==
    /\ now = 0
    /\ breakers = [n \in Names |-> NewBreaker]
    /\ lastCall = NoCall
    /\ consec = [n \in Names |-> 0]
    /\ probeFail = [n \in Names |-> -1]
    /\ req = IdleReq
    /\ requests = 0

\* circuit_breaker.call(func) on the test fixture's breaker.
Call(outcome) ==
    LET name == "test_breaker"
        r == BreakerCall(breakers[name], name, now, outcome) IN
    /\ breakers' = [breakers EXCEPT ![name] = r.breaker]
    /\ lastCall' = CallRecord(breakers[name], name, now, probeFail[name], outcome, r)
    /\ consec' = [consec EXCEPT ![name] = ConsecAfter(consec[name], outcome, r)]
    /\ probeFail' = [probeFail EXCEPT ![name] = ProbeFailAfter(probeFail[name], breakers[name], now, outcome, r)]
    /\ UNCHANGED <<now, req, requests, exceptBreaker>>

\* time.sleep between the test's calls
Tick ==
    /\ now < MaxTime
    /\ now' = now + 1
    /\ UNCHANGED <<breakers, lastCall, consec, probeFail, req, requests, exceptBreaker>>

\* _post_with_retry(path, payload) is entered.
StartRequest(path) ==
    /\ req.pc \in {"idle", "done"}
    /\ requests < MaxRequests
    /\ requests' = requests + 1
    /\ req' = [IdleReq EXCEPT !.pc = "call", !.path = path,
                 !.startedOpen = ~BreakerAllows(breakers[BreakerNameFor(path)],
                                                BreakerNameFor(path), now)]
    /\ UNCHANGED <<now, breakers, lastCall, consec, probeFail, exceptBreaker>>

\* if attempt > 0: time.sleep(sleep_time)
Sleep ==
    /\ req.pc = "sleep"
    /\ now + SleepTime(req.attempt) <= MaxRetryTime
    /\ now' = now + SleepTime(req.attempt)
    /\ req' = [req EXCEPT !.pc = "call", !.sleeps = Append(req.sleeps, SleepTime(req.attempt))]
    /\ UNCHANGED <<breakers, lastCall, consec, probeFail, requests, exceptBreaker>>

\* with_circuit_breaker(_post_internal, "gomap_api", path, payload) and its handlers
Attempt(outcome) ==
    LET name == BreakerNameFor(req.path)
        r == BreakerCall(breakers[name], name, now, outcome) IN
    /\ req.pc = "call"
    /\ breakers' = [breakers EXCEPT ![name] = r.breaker]
    /\ lastCall' = CallRecord(breakers[name], name, now, probeFail[name], outcome, r)
    /\ consec' = [consec EXCEPT ![name] = ConsecAfter(consec[name], outcome, r)]
    /\ probeFail' = [probeFail EXCEPT ![name] = ProbeFailAfter(probeFail[name], breakers[name], now, outcome, r)]
    /\ req' = RetryStep(req, r.result)
    /\ UNCHANGED <<now, requests, exceptBreaker>>

\* Time passing between two requests.
Wait(d) ==
    /\ req.pc \in {"idle", "done"}
    /\ d > 0
    /\ now + d <= MaxRetryTime
    /\ now' = now + d
    /\ UNCHANGED <<breakers, lastCall, consec, probeFail, req, requests, exceptBreaker>>

InitCore == InitBreakers /\ InitCache /\ InitConc /\ InitEtaIdle

Init == InitCore /\ InitAppIdle

InitEta == InitBreakers /\ InitCache /\ InitConc /\ InitEtaInputs /\ InitAppIdle

NextBreaker ==
    \/ \E o \in Outcomes : Call(o)
    \/ Tick

SpecBreaker == Init /\ [][NextBreaker]_vars

NextRetry ==
    \/ \E p \in Paths : StartRequest(p)
    \/ Sleep
    \/ \E o \in Outcomes : Attempt(o)
    \/ \E d \in {GOMAP_CIRCUIT_BREAKER_COOLDOWN_SECONDS - 1,
                 GOMAP_CIRCUIT_BREAKER_COOLDOWN_SECONDS} : Wait(d)

SpecRetry == Init /\ [][NextRetry]_vars

SpecCache == Init /\ [][NextCache]_vars

SpecConc == Init /\ [][NextConc]_vars

\* One caller of route_directions at a time
NextRoute ==
    \/ \E k \in ConcKeys : Begin(1, k)
    \/ AcquireCache(1)
    \/ CacheRead(1)
    \/ CacheWrite(1)
    \/ SleepDone(1)
    \/ AcquireBreaker(1)
    \/ BreakerGate(1)
    \/ \E o \in Outcomes : HttpDone(1, o)
    \/ BreakerRecord(1)

SpecRoute == Init /\ [][NextRoute]_vars

SpecEta == InitEta /\ [][NextEta]_vars

InitTraffic == InitBreakers /\ InitCache /\ InitConc /\ InitTrafficInputs /\ InitAppIdle

SpecTraffic == InitTraffic /\ [][NextTraffic]_vars

----------------------------------------------------------------------------
(* Circuit breaker claims, checked under SpecBreaker *)

\* Whether the call last observed found the cooldown elapsed, from its own timestamps.
LastCallElapsed ==
    lastCall.at - lastCall.openedBefore >= cooldown_seconds(lastCall.name)

\* C1: with failure_threshold = T the breaker is closed while fewer than T consecutive
\* failures have been recorded and open from the T-th on, and a call that finds it open
\* before the cooldown has elapsed gets CircuitOpenError without the wrapped function
\* being invoked.
C1_OpensAtThreshold ==
    /\ \A n \in Names :
         /\ consec[n] < failure_threshold(n) => breakers[n].state = "closed"
         /\ consec[n] >= failure_threshold(n) => breakers[n].state = "open"
    /\ (lastCall.name # "none" /\ lastCall.wasOpen /\ ~LastCallElapsed)
         => (~lastCall.invoked /\ lastCall.result = "CircuitOpenError")

C1_Witness ==
    /\ lastCall.name = "test_breaker"
    /\ lastCall.wasOpen /\ ~LastCallElapsed
    /\ lastCall.result = "CircuitOpenError"
    /\ consec["test_breaker"] = TestBreakerThreshold

\* C3: a call that finds the breaker open with now - opened_at >= cooldown_seconds is
\* passed to the wrapped function; when that probe succeeds the caller gets its result,
\* the breaker is closed and failure_count is 0.
C3_ProbeAfterCooldown ==
    (lastCall.name # "none" /\ lastCall.wasOpen /\ LastCallElapsed)
        => /\ lastCall.invoked
           /\ lastCall.outcome \in Replies =>
                /\ lastCall.result = lastCall.outcome
                /\ breakers[lastCall.name].state = "closed"
                /\ breakers[lastCall.name].failure_count = 0

C3_Witness ==
    /\ lastCall.name = "test_breaker"
    /\ lastCall.wasOpen /\ LastCallElapsed
    /\ lastCall.at - lastCall.openedBefore = TestBreakerCooldown
    /\ lastCall.outcome \in Replies
    /\ breakers["test_breaker"].state = "closed"

\* C4: a failed half-open probe leaves the breaker open with opened_at = the time of
\* that failure, and every call made less than cooldown_seconds after a failed probe is
\* rejected without invoking the wrapped function.
C4_FailedProbeRestartsCooldown ==
    /\ (lastCall.name # "none" /\ lastCall.wasOpen /\ LastCallElapsed
            /\ lastCall.outcome \in Errors)
         => /\ breakers[lastCall.name].state = "open"
            /\ breakers[lastCall.name].opened_at = lastCall.at
    /\ (lastCall.name # "none" /\ lastCall.prevProbeFail >= 0
            /\ lastCall.at - lastCall.prevProbeFail < cooldown_seconds(lastCall.name))
         => (~lastCall.invoked /\ lastCall.result = "CircuitOpenError")

C4_Witness ==
    /\ lastCall.name = "test_breaker"
    /\ lastCall.prevProbeFail >= 0
    /\ lastCall.at - lastCall.prevProbeFail < TestBreakerCooldown
    /\ lastCall.at - lastCall.openedBefore < TestBreakerCooldown
    /\ lastCall.result = "CircuitOpenError"

----------------------------------------------------------------------------
(* Retry executor claims, checked under SpecRetry *)

\* C2: a CircuitOpenError is never retried: it is the last entry of the request's
\* attempts, the request ends with it and no sleep follows it; a request that starts
\* while the circuit is open ends on its first attempt, without any sleep, with
\* CircuitOpenError and not with a network error.
C2_OpenCircuitNotRetried ==
    LET n == Len(req.log) IN
    /\ \A i \in 1..n :
         req.log[i] = "CircuitOpenError"
            => /\ i = n
               /\ req.pc = "done"
               /\ req.result = "CircuitOpenError"
               /\ Len(req.sleeps) = n - 1
    /\ (req.startedOpen /\ n >= 1)
         => /\ n = 1
            /\ req.sleeps = <<>>
            /\ req.pc = "done"
            /\ req.result = "CircuitOpenError"
            /\ req.result \notin Errors

C2_Witness ==
    /\ req.startedOpen
    /\ req.pc = "done"
    /\ req.log = <<"CircuitOpenError">>

\* A request that meets the open circuit after failures of its own.
C2_WitnessMidRequest ==
    /\ ~req.startedOpen
    /\ req.pc = "done"
    /\ Len(req.log) > 1
    /\ req.result = "CircuitOpenError"

\* C5: one call of _post_with_retry makes at most GOMAP_RETRY_ATTEMPTS + 1 attempts;
\* a successful attempt ends it with that attempt's reply; when every attempt fails
\* with an error other than CircuitOpenError, the error raised is the last attempt's.
C5_BoundedAttemptsLastError ==
    LET n == Len(req.log) IN
    /\ n <= GOMAP_RETRY_ATTEMPTS + 1
    /\ \A i \in 1..n :
         req.log[i] \in Replies
            => (i = n /\ req.pc = "done" /\ req.result = req.log[i])
    /\ (req.pc = "done" /\ \A i \in 1..n : req.log[i] \in Errors)
         => (n = GOMAP_RETRY_ATTEMPTS + 1 /\ req.result = req.log[n])

C5_Witness ==
    /\ req.pc = "done"
    /\ Len(req.log) = GOMAP_RETRY_ATTEMPTS + 1
    /\ \A i \in 1..Len(req.log) : req.log[i] \in Errors
    /\ req.log[1] # req.log[Len(req.log)]
    /\ req.result = req.log[Len(req.log)]

\* C6: an attempt of a traffic lookup, whatever its outcome, leaves the CircuitState
\* that gates route lookups unchanged.
C6_TrafficLeavesRoutingBreaker ==
    [][(req.pc = "call" /\ req.path = TrafficPath)
          => breakers'[BreakerNameFor(RoutePath)] = breakers[BreakerNameFor(RoutePath)]]_vars

----------------------------------------------------------------------------
(* Cache claims, checked under SpecCache *)

IsCacheOp(kind) == opCount' = opCount + 1 /\ lastOp'.op = kind

\* C7: a get of a held key before the deadline of its latest set (set time + ttl)
\* returns the value of that set and keeps the entry; a get at or after the deadline
\* returns absent, removes the entry and counts one expiration; no other step removes
\* an entry except the LRU eviction of a set into a full cache (never the clock).
C7_TtlLazyExpiry ==
    [][/\ (IsCacheOp("get") /\ lastOp'.key \in CachedKeys(entries))
            => LET k == lastOp'.key IN
               IF now < written[k].deadline
               THEN /\ lastOp'.result = written[k].value
                    /\ k \in CachedKeys(entries')
                    /\ expirations' = expirations
               ELSE /\ lastOp'.result = Absent
                    /\ k \notin CachedKeys(entries')
                    /\ expirations' = expirations + 1
       /\ \A k \in CachedKeys(entries) \ CachedKeys(entries') :
            \/ IsCacheOp("get") /\ lastOp'.key = k /\ now >= written[k].deadline
            \/ /\ IsCacheOp("set")
               /\ lastOp'.key \notin CachedKeys(entries)
               /\ Len(entries) = CacheMaxSize
      ]_vars

\* A read exactly at the deadline found the entry expired.
C7_Witness ==
    /\ lastOp.op = "get"
    /\ lastOp.result = Absent
    /\ written[lastOp.key].value # Absent
    /\ now = written[lastOp.key].deadline
    /\ lastOp.key \notin CachedKeys(entries)
    /\ expirations = 1

LeastRecentlyTouched(es) ==
    CHOOSE k \in CachedKeys(es) : \A j \in CachedKeys(es) : touched[k] <= touched[j]

\* C8: the cache never holds more than max_size entries, and a set of a new key into
\* a full cache removes exactly the entry whose latest touch (get hit or set) is the
\* oldest, leaving every other entry as it was.
C8_LruEviction ==
    [][/\ Len(entries') <= CacheMaxSize
       /\ Cardinality(CachedKeys(entries')) = Len(entries')
       /\ (IsCacheOp("set") /\ lastOp'.key \notin CachedKeys(entries)
               /\ Len(entries) = CacheMaxSize)
            => LET lru == LeastRecentlyTouched(entries) IN
               /\ CachedKeys(entries') = (CachedKeys(entries) \ {lru}) \cup {lastOp'.key}
               /\ \A k \in CachedKeys(entries) \ {lru} :
                    EntryOf(entries', k) = EntryOf(entries, k)
      ]_vars

\* The first key inserted survived an eviction because it was read in between.
C8_Witness ==
    /\ lastOp.op = "set"
    /\ lastOp.key = CacheMaxSize + 1
    /\ Len(entries) = CacheMaxSize
    /\ 1 \in CachedKeys(entries)
    /\ 2 \notin CachedKeys(entries)
    /\ written[2].value # Absent
    /\ expirations = 0
    /\ touched[1] > touched[2]

----------------------------------------------------------------------------
(* Concurrency claim, checked under SpecConc *)

\* C9: a thread inside a retry backoff sleep or inside the HTTP request holds neither
\* the cache's mutex nor the breaker's; whoever holds a mutex is inside the in-memory
\* cache or breaker operation it guards, so no waiter is blocked for the duration of a
\* sleep or of a request.
C9_NoLockAcrossSleepOrHttp ==
    /\ \A t \in Threads :
         thr[t].pc \in {"sleep", "http"} => (cacheLock # t /\ breakerLock # t)
    /\ cacheLock # 0 => thr[cacheLock].pc \in {"cache_get_cs", "cache_set_cs"}
    /\ breakerLock # 0 => thr[breakerLock].pc \in {"breaker_check_cs", "breaker_record_cs"}

\* One thread sleeps between attempts, another is in its HTTP request, and each mutex
\* can be taken at once.
C9_Witness ==
    /\ \E t, u \in Threads :
         /\ thr[t].pc = "sleep"
         /\ thr[u].pc = "http"
    /\ cacheLock = 0
    /\ breakerLock = 0

\* A thread gets the breaker's mutex while another thread sleeps.
C9_WitnessOvertake ==
    \E t, u \in Threads :
        /\ thr[t].pc = "sleep"
        /\ thr[u].pc = "breaker_check_cs"
        /\ breakerLock = u

----------------------------------------------------------------------------
(* Route reconciler *)

\* Relative deviation of a returned distance from the straight-line distance,
\* |d - h| / max(h, epsilon), over the haversine tolerance
FarFromHaversine(distance, haversine) ==
    Abs(distance - haversine) * 100 > MAP_HAVERSINE_TOLERANCE_PCT * Max2(haversine, 1)

BothReturnedDistances ==
    /\ etaOut.called
    /\ etaOut.result.kind = "EtaComputation"
    /\ etaIn.gomap.present /\ etaIn.osrm.present
    /\ etaIn.gomap.distance_km # NoneVal /\ etaIn.osrm.distance_km # NoneVal
    /\ etaIn.haversine_km > 0

\* C10: when both providers returned a route with a distance, the primary's distance is
\* farther from the straight-line distance than the haversine tolerance allows and the
\* secondary's is not, the result is the secondary's route: provider "osrm", the
\* secondary's distance and duration, and a calibration note.
C10_SecondarySelectedWhenPrimaryFar ==
    (/\ BothReturnedDistances
     /\ FarFromHaversine(etaIn.gomap.distance_km, etaIn.haversine_km)
     /\ ~FarFromHaversine(etaIn.osrm.distance_km, etaIn.haversine_km))
    => /\ etaOut.result.provider = "osrm"
       /\ etaOut.result.route_distance_km = etaIn.osrm.distance_km
       /\ etaOut.result.duration_seconds = etaIn.osrm.duration_seconds
       /\ etaOut.result.calibration_note # NoneStr

\* The same statement for primary distances other than 0.0 km
C10_HoldsForPositivePrimary ==
    (/\ BothReturnedDistances
     /\ etaIn.gomap.distance_km > 0
     /\ FarFromHaversine(etaIn.gomap.distance_km, etaIn.haversine_km)
     /\ ~FarFromHaversine(etaIn.osrm.distance_km, etaIn.haversine_km))
    => /\ etaOut.result.provider = "osrm"
       /\ etaOut.result.route_distance_km = etaIn.osrm.distance_km
       /\ etaOut.result.duration_seconds = etaIn.osrm.duration_seconds
       /\ etaOut.result.calibration_note # NoneStr

\* A primary 15 km against a straight line of 10 km, the secondary at 10.2 km
C10_SelectedSecondary ==
    /\ BothReturnedDistances
    /\ etaIn.gomap.distance_km = 15000 /\ etaIn.osrm.distance_km = 10200
    /\ etaIn.haversine_km = 10000
    /\ etaOut.result.provider = "osrm"

\* A primary 0.0 km against a straight line of 10 km, the secondary at 10.2 km
C10_ZeroPrimaryKept ==
    /\ BothReturnedDistances
    /\ etaIn.gomap.distance_km = 0 /\ etaIn.osrm.distance_km = 10200
    /\ etaIn.haversine_km = 10000
    /\ etaOut.result.provider = "gomap"
    /\ etaOut.result.route_distance_km = 0
    /\ etaOut.result.calibration_note = NoneStr

BothRoutesWithDistance ==
    /\ etaOut.called
    /\ etaOut.result.kind = "EtaComputation"
    /\ etaIn.gomap.present /\ etaIn.osrm.present
    /\ etaIn.gomap.distance_km # NoneVal /\ etaIn.osrm.distance_km # NoneVal

\* Rule 3 and rule 4 of the reconciler, on positive distances and a positive haversine
SecondaryOverrides ==
    \/ /\ FarFromHaversine(etaIn.gomap.distance_km, etaIn.haversine_km)
       /\ ~FarFromHaversine(etaIn.osrm.distance_km, etaIn.haversine_km)
    \/ /\ DistDiffOver(etaIn.gomap.distance_km, etaIn.osrm.distance_km)
       /\ etaIn.osrm.distance_km < etaIn.gomap.distance_km

\* Both providers returned a positive distance and a duration of at least one second,
\* the haversine distance is positive, and neither override rule applies
PrimaryPreferredCase ==
    /\ BothReturnedDistances
    /\ etaIn.gomap.distance_km > 0 /\ etaIn.osrm.distance_km > 0
    /\ etaIn.gomap.duration_seconds > 0 /\ etaIn.osrm.duration_seconds > 0
    /\ ~SecondaryOverrides

IsMeanOf(d, a, b) == 2 * d - (a + b) \in {-1, 0, 1}

\* C11: when neither override rule selects the secondary, the result is the primary's
\* (provider, distance, geometry if it has one, notice); its base duration is the
\* rounded mean of the two durations when the two distances agree within
\* MAP_DISTANCE_TOLERANCE, and the primary's own duration when they do not.
C11_PrimaryPreferredAveragesOnlyOnAgreement ==
    PrimaryPreferredCase
    => /\ etaOut.result.provider = "gomap"
       /\ etaOut.result.route_distance_km = etaIn.gomap.distance_km
       /\ etaOut.result.route_summary = etaIn.gomap.notice
       /\ etaIn.gomap.geometry # NoneStr
            => etaOut.result.route_geometry = etaIn.gomap.geometry
       /\ IF DistDiffOver(etaIn.gomap.distance_km, etaIn.osrm.distance_km)
          THEN etaOut.result.duration_seconds = etaIn.gomap.duration_seconds
          ELSE IsMeanOf(etaOut.result.duration_seconds, etaIn.gomap.duration_seconds,
                        etaIn.osrm.duration_seconds)

\* The same statement, for the distances that agree within the tolerance
C11_HoldsWhenDistancesAgree ==
    (PrimaryPreferredCase /\ ~DistDiffOver(etaIn.gomap.distance_km, etaIn.osrm.distance_km))
    => /\ etaOut.result.provider = "gomap"
       /\ etaOut.result.route_distance_km = etaIn.gomap.distance_km
       /\ etaOut.result.route_summary = etaIn.gomap.notice
       /\ IsMeanOf(etaOut.result.duration_seconds, etaIn.gomap.duration_seconds,
                   etaIn.osrm.duration_seconds)

\* Primary 5.2 km / 600 s, secondary 10.2 km / 620 s, haversine 1.3 km: the distances
\* differ by 49 %, no override applies, and the durations are averaged all the same
C11_AveragedDespiteDisagreement ==
    /\ PrimaryPreferredCase
    /\ etaIn.gomap.distance_km = 5200 /\ etaIn.gomap.duration_seconds = 600
    /\ etaIn.osrm.distance_km = 10200 /\ etaIn.osrm.duration_seconds = 620
    /\ etaIn.haversine_km = 1300
    /\ etaOut.result.provider = "gomap"
    /\ etaOut.result.duration_seconds = 610

\* C12: when both distances are farther from the haversine distance than the haversine
\* tolerance allows but differ from each other by no more than MAP_DISTANCE_TOLERANCE,
\* the provider is the primary and there is no calibration note; for 5.2 km / 600 s
\* against 5.3 km / 620 s with haversine 1.3 km, traffic disabled and no buffer, the base
\* duration is 600 s or 610 s and eta_minutes is 10 or 11.
C12_AgreementKeepsPrimary ==
    /\ (/\ BothRoutesWithDistance
        /\ FarFromHaversine(etaIn.gomap.distance_km, etaIn.haversine_km)
        /\ FarFromHaversine(etaIn.osrm.distance_km, etaIn.haversine_km)
        /\ ~DistDiffOver(etaIn.gomap.distance_km, etaIn.osrm.distance_km))
       => /\ etaOut.result.provider = "gomap"
          /\ etaOut.result.calibration_note = NoneStr
    /\ (/\ BothRoutesWithDistance
        /\ etaIn.gomap.distance_km = 5200 /\ etaIn.gomap.duration_seconds = 600
        /\ etaIn.osrm.distance_km = 5300 /\ etaIn.osrm.duration_seconds = 620
        /\ etaIn.haversine_km = 1300
        /\ ~etaOut.settings.GOMAP_TRAFFIC_ENABLED
        /\ etaOut.settings.ETA_BUFFER_MINUTES = 0)
       => /\ etaOut.result.duration_seconds \in {600, 610}
          /\ etaOut.result.eta_minutes \in {10, 11}

C12_Witness ==
    /\ BothRoutesWithDistance
    /\ etaIn.gomap.distance_km = 5200 /\ etaIn.gomap.duration_seconds = 600
    /\ etaIn.osrm.distance_km = 5300 /\ etaIn.osrm.duration_seconds = 620
    /\ etaIn.haversine_km = 1300
    /\ ~etaOut.settings.GOMAP_TRAFFIC_ENABLED
    /\ etaOut.settings.ETA_BUFFER_MINUTES = 0
    /\ etaOut.result.provider = "gomap"
    /\ etaOut.result.calibration_note = NoneStr
    /\ etaOut.result.duration_seconds = 610
    /\ etaOut.result.eta_minutes = 11

\* No route that was returned carries a duration (in particular when none was returned)
NoRouteSuppliesDuration ==
    /\ etaIn.gomap.present => etaIn.gomap.duration_seconds = NoneVal
    /\ etaIn.osrm.present => etaIn.osrm.duration_seconds = NoneVal

\* C13: compute_eta_with_traffic returns None when neither provider returned a route and
\* when no returned route supplies a duration, and an EtaComputation in every other case.
C13_AbsentOnlyWithoutDuration ==
    etaOut.called => (etaOut.result.kind = "None" <=> NoRouteSuppliesDuration)

\* The same statement, for a secondary that is absent or carries a duration
C13_HoldsWhenSecondaryHasDuration ==
    (etaOut.called /\ (etaIn.osrm.present => etaIn.osrm.duration_seconds # NoneVal))
    => (etaOut.result.kind = "None" <=> NoRouteSuppliesDuration)

\* None is returned when neither provider answered
C13_NoneWhenNeitherReturned ==
    (etaOut.called /\ ~etaIn.gomap.present /\ ~etaIn.osrm.present) => etaOut.result.kind = "None"

\* Primary 15 km / 600 s, secondary 10.2 km without a duration, haversine 10 km: the
\* secondary is selected and the primary's duration is not consulted
C13_NoneDespitePrimaryDuration ==
    /\ etaOut.called
    /\ etaIn.gomap.present /\ etaIn.gomap.distance_km = 15000
    /\ etaIn.gomap.duration_seconds = 600
    /\ etaIn.osrm.present /\ etaIn.osrm.distance_km = 10200
    /\ etaIn.osrm.duration_seconds = NoneVal
    /\ etaIn.haversine_km = 10000
    /\ etaOut.result.kind = "None"

WinnerRoute == IF etaOut.result.provider = "gomap" THEN etaIn.gomap ELSE etaIn.osrm
OtherRoute == IF etaOut.result.provider = "gomap" THEN etaIn.osrm ELSE etaIn.gomap

\* C14: route_geometry is the geometry of the provider that won reconciliation whenever
\* that provider has one, and the other provider's geometry only when the winner has
\* none.
C14_GeometryOfWinner ==
    (etaOut.called /\ etaOut.result.kind = "EtaComputation")
    => etaOut.result.route_geometry =
         (IF WinnerRoute.geometry # NoneStr THEN WinnerRoute.geometry ELSE OtherRoute.geometry)

\* The same statement, for a result won by the primary
C14_HoldsWhenPrimaryWins ==
    (etaOut.called /\ etaOut.result.kind = "EtaComputation" /\ etaOut.result.provider = "gomap")
    => etaOut.result.route_geometry =
         (IF WinnerRoute.geometry # NoneStr THEN WinnerRoute.geometry ELSE OtherRoute.geometry)

\* Primary 15 km, secondary 10.2 km, haversine 10 km, both with a geometry: the
\* secondary wins and the result carries the primary's geometry
C14_PrimaryGeometryUnderSecondary ==
    /\ BothReturnedDistances
    /\ etaIn.gomap.distance_km = 15000 /\ etaIn.osrm.distance_km = 10200
    /\ etaIn.haversine_km = 10000
    /\ etaIn.gomap.geometry = "gomap_geometry" /\ etaIn.osrm.geometry = "osrm_geometry"
    /\ etaOut.result.provider = "osrm"
    /\ etaOut.result.route_geometry = "gomap_geometry"

----------------------------------------------------------------------------
(* Traffic-aware ETA *)

EtaReturned == etaOut.called /\ etaOut.result.kind = "EtaComputation"

\* C15 as stated: every EtaComputation returned by compute_eta_with_traffic has
\* eta_seconds >= typical_eta_minutes * 60, whatever the base duration.
C15_EtaSecondsCoverTypicalMinutes ==
    (EtaReturned /\ etaOut.result.duration_seconds >= 1)
    => etaOut.result.eta_seconds >= etaOut.result.typical_eta_minutes * 60

\* C15 as amended: every EtaComputation returned by compute_eta_with_traffic has
\* eta_seconds at least the base duration max(1, duration_seconds) and eta_minutes at
\* least typical_eta_minutes; eta_seconds >= typical_eta_minutes * 60 when the base
\* duration is a whole number of minutes.
C15_EtaNotBelowBase ==
    EtaReturned
    => /\ etaOut.result.eta_seconds >= BaseEtaSeconds(etaOut.result.duration_seconds)
       /\ etaOut.result.eta_minutes >= etaOut.result.typical_eta_minutes
       /\ BaseEtaSeconds(etaOut.result.duration_seconds) % 60 = 0
            => etaOut.result.eta_seconds >= etaOut.result.typical_eta_minutes * 60

\* A 90 second route under severe traffic: typical 2 minutes, adjusted to 125 seconds
C15_Witness ==
    /\ EtaReturned
    /\ etaOut.result.duration_seconds = 90
    /\ etaOut.result.traffic_condition = "severe"
    /\ etaOut.settings.ETA_BUFFER_MINUTES = 0
    /\ etaOut.result.typical_eta_minutes = 2
    /\ etaOut.result.eta_seconds = 125 + ETA_HEAVY_BUFFER_MINUTES * 60

\* A 90 second route without traffic or buffer: typical 2 minutes, eta_seconds 90
C15_NinetySecondsBelowTwoMinutes ==
    /\ EtaReturned
    /\ etaOut.result.duration_seconds = 90
    /\ ~etaOut.settings.GOMAP_TRAFFIC_ENABLED
    /\ etaOut.settings.ETA_BUFFER_MINUTES = 0
    /\ etaOut.result.typical_eta_minutes = 2
    /\ etaOut.result.eta_seconds = 90

\* C16: with traffic disabled, eta_seconds is the base duration (max(1, duration_seconds))
\* plus exactly ETA_BUFFER_MINUTES * 60; and under every setting of traffic, delay
\* factors and buffer, eta_seconds is never less than the base duration.
C16_TrafficAdditivity ==
    EtaReturned
    => /\ ~etaOut.settings.GOMAP_TRAFFIC_ENABLED
            => etaOut.result.eta_seconds =
                 BaseEtaSeconds(etaOut.result.duration_seconds)
                   + etaOut.settings.ETA_BUFFER_MINUTES * 60
       /\ etaOut.result.eta_seconds >= BaseEtaSeconds(etaOut.result.duration_seconds)
       /\ etaOut.result.eta_seconds >= etaOut.result.duration_seconds

\* 600 seconds, traffic disabled, five minutes of buffer: 900 seconds
C16_Witness ==
    /\ EtaReturned
    /\ ~etaOut.settings.GOMAP_TRAFFIC_ENABLED
    /\ etaOut.settings.ETA_BUFFER_MINUTES = 5
    /\ etaOut.result.duration_seconds = 600
    /\ etaOut.result.eta_seconds = 900

\* A delay factor below one leaves the base duration alone
C16_WitnessDiscountIgnored ==
    /\ EtaReturned
    /\ etaOut.settings.GOMAP_TRAFFIC_ENABLED
    /\ etaOut.settings.TRAFFIC_DELAY_FACTORS = "smooth_discount"
    /\ etaOut.settings.ETA_BUFFER_MINUTES = 0
    /\ etaOut.result.traffic_condition = "smooth"
    /\ etaOut.result.duration_seconds = 600
    /\ etaOut.result.eta_seconds = 600

TrafficRaised ==
    /\ EtaReturned
    /\ TrafficRaises \in {etaOut.origin_traffic, etaOut.dest_traffic}

\* C17: if the traffic lookup at the origin or at the destination raises, an
\* EtaComputation is still returned, with no multiplier applied, traffic_delay_minutes
\* None, and the ETA equal to the base ETA plus the fixed buffer.
C17_TrafficFailureKeepsBaseEta ==
    /\ (etaOut.called /\ TrafficRaises \in {etaOut.origin_traffic, etaOut.dest_traffic})
         => etaOut.result.kind = "EtaComputation"
    /\ TrafficRaised
         => /\ etaOut.result.traffic_delay_minutes = NoneVal
            /\ etaOut.result.eta_seconds =
                 BaseEtaSeconds(etaOut.result.duration_seconds)
                   + etaOut.settings.ETA_BUFFER_MINUTES * 60
            /\ etaOut.result.eta_minutes =
                 etaOut.result.typical_eta_minutes + etaOut.settings.ETA_BUFFER_MINUTES

\* The origin lookup found heavy traffic and the destination lookup raised
C17_Witness ==
    /\ TrafficRaised
    /\ etaOut.origin_traffic = 3 /\ etaOut.dest_traffic = TrafficRaises
    /\ etaOut.result.duration_seconds = 600
    /\ etaOut.result.eta_seconds = 600
    /\ etaOut.result.traffic_condition = NoneStr

\* The origin lookup raised
C17_WitnessOriginRaised ==
    /\ TrafficRaised
    /\ etaOut.origin_traffic = TrafficRaises
    /\ etaOut.settings.ETA_BUFFER_MINUTES = 5
    /\ etaOut.result.duration_seconds = 600
    /\ etaOut.result.eta_seconds = 900

TrafficAttempted ==
    /\ EtaReturned
    /\ etaOut.settings.GOMAP_TRAFFIC_ENABLED
    /\ etaIn.gomap.present

\* What an endpoint contributes: its severity when positive, nothing otherwise
Signal(traffic) == IF traffic \in 1..4 THEN traffic ELSE 0

WorseSignal == Max2(Signal(etaOut.origin_traffic), Signal(etaOut.dest_traffic))

SeverityNames == <<"smooth", "moderate", "heavy", "severe">>

\* C18: when traffic is looked up (and no lookup raises), traffic_condition names the
\* larger of the two endpoints' severities, a missing snapshot or a severity of 0 or None
\* counting as no signal; it is "unknown" only when traffic was attempted and neither
\* endpoint gave a positive severity, and None when traffic was not attempted.
C18_WorseSeverityNamesCondition ==
    /\ (TrafficAttempted /\ ~TrafficRaised)
         => etaOut.result.traffic_condition =
              (IF WorseSignal > 0 THEN SeverityNames[WorseSignal] ELSE "unknown")
    /\ (EtaReturned /\ etaOut.result.traffic_condition = "unknown")
         => (TrafficAttempted /\ WorseSignal = 0)
    /\ (EtaReturned /\ ~TrafficAttempted) => etaOut.result.traffic_condition = NoneStr

\* Heavy at the origin, smooth at the destination
C18_Witness ==
    /\ TrafficAttempted
    /\ etaOut.origin_traffic = 3 /\ etaOut.dest_traffic = 1
    /\ etaOut.result.traffic_condition = "heavy"

C18_WitnessUnknown ==
    /\ TrafficAttempted
    /\ etaOut.origin_traffic = TrafficAbsent /\ etaOut.dest_traffic = 0
    /\ etaOut.result.traffic_condition = "unknown"

C18_WitnessNotAttempted ==
    /\ EtaReturned
    /\ etaOut.settings.GOMAP_TRAFFIC_ENABLED /\ ~etaIn.gomap.present
    /\ etaOut.result.traffic_condition = NoneStr

\* A traffic multiplier above one was applied
MultiplierApplied ==
    /\ EtaReturned
    /\ etaOut.result.traffic_condition \in {"smooth", "moderate", "heavy", "severe"}
    /\ ConfiguredFactorPct(etaOut.settings, etaOut.result.traffic_condition) > 100

\* adjusted_seconds, recovered from eta_seconds by taking the buffer off again
AdjustedSecondsReturned ==
    LET buffer == BufferMinutes(etaOut.settings, etaOut.result.traffic_condition) IN
    etaOut.result.eta_seconds - (IF buffer > 0 THEN buffer * 60 ELSE 0)

IsNearestTo(n, numerator, denominator) ==
    LET d == n * denominator - numerator IN 2 * d <= denominator /\ -2 * d <= denominator

\* C19: for a multiplier m > 1 and a base ETA of b seconds, the traffic-adjusted time is
\* b * m rounded to the nearest second, and
\* traffic_delay_minutes = max(0, ceil((adjusted - b) / 60)).
C19_AdjustedIsRoundedProduct ==
    MultiplierApplied
    => LET b == BaseEtaSeconds(etaOut.result.duration_seconds)
           pct == ConfiguredFactorPct(etaOut.settings, etaOut.result.traffic_condition)
       IN /\ IsNearestTo(AdjustedSecondsReturned, b * pct, 100)
          /\ etaOut.result.traffic_delay_minutes =
               Max2(0, CeilDiv(AdjustedSecondsReturned - b, 60))

\* The delay part of the statement on its own
C19_DelayMinutesFromAdjusted ==
    MultiplierApplied
    => etaOut.result.traffic_delay_minutes =
         Max2(0, CeilDiv(AdjustedSecondsReturned
                           - BaseEtaSeconds(etaOut.result.duration_seconds), 60))

\* 90 seconds under moderate traffic: 90 * 1.12 = 100.8, returned as 100
C19_TruncatedNotRounded ==
    /\ MultiplierApplied
    /\ etaOut.result.duration_seconds = 90
    /\ etaOut.result.traffic_condition = "moderate"
    /\ AdjustedSecondsReturned = 100

FallbackBuilt == etaOut.called /\ etaOut.fallback.kind = "EtaComputation"

\* C20: every EtaComputation produced by compute_eta_with_traffic or by
\* build_fallback_eta has eta_minutes >= 1 and eta_seconds >= 1, also for
\* fallback_minutes = 0 and for a provider duration of 0 or 1 second.
C20_EtaAtLeastOne ==
    /\ EtaReturned => (etaOut.result.eta_minutes >= 1 /\ etaOut.result.eta_seconds >= 1)
    /\ FallbackBuilt => (etaOut.fallback.eta_minutes >= 1 /\ etaOut.fallback.eta_seconds >= 1)

\* The same statement for compute_eta_with_traffic alone
C20_ComputedEtaAtLeastOne ==
    EtaReturned => (etaOut.result.eta_minutes >= 1 /\ etaOut.result.eta_seconds >= 1)

\* A provider duration of 0 seconds comes out as one second and one minute
C20_ZeroDurationRaisedToOne ==
    /\ EtaReturned
    /\ etaOut.result.duration_seconds = 0
    /\ etaOut.settings.ETA_BUFFER_MINUTES = 0
    /\ etaOut.result.eta_seconds = 1 /\ etaOut.result.eta_minutes = 1

\* build_fallback_eta(distance, 0): one second, zero minutes
C20_FallbackZeroMinutes ==
    /\ FallbackBuilt
    /\ etaOut.fallback.eta_seconds = 1
    /\ etaOut.fallback.eta_minutes = 0

----------------------------------------------------------------------------
(* Provider replies *)

\* C21: a reply that signals failure (success = false) is returned by the retry executor
\* as a reply: it is not retried, the breaker records no failure for it, and
\* route_directions then returns None without writing to the route cache.
C21_NonSuccessReplyIsNoRoute ==
    [][\A t \in Threads :
         (/\ thr[t].pc = "breaker_record_cs"
          /\ thr[t].outcome = "nonsuccess_body"
          /\ thr'[t] # thr[t])
         => /\ thr'[t] = IdleThread
            /\ breakers'[BreakerNameFor(RoutePath)].failure_count = 0
            /\ breakers'[BreakerNameFor(RoutePath)].state = "closed"
            /\ entries' = entries]_vars

\* The first attempt of a call came back with success = false
C21_Witness ==
    /\ thr[1].pc = "breaker_record_cs"
    /\ thr[1].outcome = "nonsuccess_body"
    /\ thr[1].attempt = 0
    /\ entries = <<>>

\* The reply with success = false came on the retry after a timeout
C21_WitnessAfterFailure ==
    /\ thr[1].pc = "breaker_record_cs"
    /\ thr[1].outcome = "nonsuccess_body"
    /\ thr[1].attempt = 1
    /\ breakers[BreakerNameFor(RoutePath)].failure_count = 1

----------------------------------------------------------------------------
(* Reply parsing: gomap._normalize_duration_seconds, and the GoMapRoute built by
   route_directions and route_directions_by_type.  A raw number is held in tenths
   (70 is 7.0), a normalised distance in metres (distance_km * 1000). *)

\* round() of a number given in tenths: to the nearest integer, a half to the even one
RoundTenths(n) ==
    LET whole == n \div 10
        rest == n % 10
    IN IF rest > 5 \/ (rest = 5 /\ whole % 2 = 1) THEN whole + 1 ELSE whole

NoNumber == -100000

\* The values a duration field of the reply can hold
RawDurations ==
    [kind : {"None"}]
    \cup [kind : {"number"}, tenths : {-50, 0, 1, 4, 70, 2000, 2004, 2005, 2015, 2025, 4200}]
    \cup [kind : {"h_m"}, hours : {0, 1}, minutes : {0, 6}]
    \cup [kind : {"text"}, minute_match : {NoneVal, 0, 6}, second_match : {NoneVal, 0, 30},
          extracted : {NoNumber, 0, 5, 70}]   \* _extract_number, in tenths

\* duration > 200: already seconds; otherwise minutes
NumericDuration(tenths) ==
    IF tenths > 2000 THEN Max2(1, RoundTenths(tenths)) ELSE Max2(1, RoundTenths(tenths * 60))

\* _normalize_duration_seconds(value)
NormalizeDurationSeconds(raw) ==
    CASE raw.kind = "None" -> NoneVal
      [] raw.kind = "number" -> NumericDuration(raw.tenths)
      [] raw.kind = "h_m" -> Max2(1, raw.hours * 3600 + raw.minutes * 60)
      [] raw.kind = "text" ->
           LET total == (IF raw.minute_match # NoneVal THEN raw.minute_match * 60 ELSE 0)
                        + (IF raw.second_match # NoneVal THEN raw.second_match ELSE 0)
           IN IF total > 0 THEN total
              ELSE IF raw.extracted = NoNumber THEN NoneVal
              ELSE NumericDuration(raw.extracted)

NormalizedDistances == {NoneVal, 0, 1, 1000, 5200}
RouteTypes == {"fastest", "shortest", "pedestrian"}

\* int((distance_km / 5.0) * 3600)
WalkingSeconds(distance) == (distance * 72) \div 100

\* duration_seconds of the GoMapRoute that route_directions_by_type builds
RouteByTypeDuration(raw, distance, route_type) ==
    LET duration_seconds == NormalizeDurationSeconds(raw) IN
    IF route_type = "pedestrian" /\ Truthy(distance) /\ ~Truthy(duration_seconds)
    THEN WalkingSeconds(distance)
    ELSE duration_seconds

InitNormInputs ==
    norm \in [parsed : {FALSE}, raw : RawDurations, distance_km : NormalizedDistances]

\* route_directions parses a reply
ParseRoute ==
    /\ ~norm.parsed
    /\ norm' = [parsed |-> TRUE, raw |-> norm.raw, distance_km |-> norm.distance_km,
                by |-> "route_directions", route_type |-> "fastest",
                normalized |-> NormalizeDurationSeconds(norm.raw),
                duration_seconds |-> NormalizeDurationSeconds(norm.raw)]
    /\ UNCHANGED <<now, breakerVars, cacheVars, concVars, etaVars, search, db, limiter, intent>>

\* route_directions_by_type parses a reply
ParseRouteByType(route_type) ==
    /\ ~norm.parsed
    /\ norm' = [parsed |-> TRUE, raw |-> norm.raw, distance_km |-> norm.distance_km,
                by |-> "route_directions_by_type", route_type |-> route_type,
                normalized |-> NormalizeDurationSeconds(norm.raw),
                duration_seconds |-> RouteByTypeDuration(norm.raw, norm.distance_km,
                                                         route_type)]
    /\ UNCHANGED <<now, breakerVars, cacheVars, concVars, etaVars, search, db, limiter, intent>>

NextNormalize ==
    \/ ParseRoute
    \/ \E ty \in RouteTypes : ParseRouteByType(ty)

InitNormalize == InitCore /\ InitNormInputs /\ InitSearchIdle /\ InitDb /\ InitLimiter /\ InitIntent

SpecNormalize == InitNormalize /\ [][NextNormalize]_vars


\* C22: for a numeric raw duration d, _normalize_duration_seconds returns
\* max(1, round(d)) when d > 200 and max(1, round(d * 60)) when d <= 200, so that
\* 7 gives 420 and 420 gives 420; and every duration_seconds that is not None on a
\* route built by route_directions or route_directions_by_type is an integer >= 1.
C22_DurationsNormalised ==
    norm.parsed =>
        /\ norm.raw.kind = "number" =>
              norm.normalized = IF norm.raw.tenths > 2000
                                THEN Max2(1, RoundTenths(norm.raw.tenths))
                                ELSE Max2(1, RoundTenths(60 * norm.raw.tenths))
        /\ (norm.raw.kind = "number" /\ norm.raw.tenths \in {70, 4200}) => norm.normalized = 420
        /\ norm.duration_seconds # NoneVal => norm.duration_seconds >= 1

\* The numeric rule alone, and the bound for what the normaliser itself returns
C22_NumericRule ==
    (norm.parsed /\ norm.raw.kind = "number") =>
        /\ norm.normalized = IF norm.raw.tenths > 2000
                             THEN Max2(1, RoundTenths(norm.raw.tenths))
                             ELSE Max2(1, RoundTenths(60 * norm.raw.tenths))
        /\ norm.raw.tenths \in {70, 4200} => norm.normalized = 420

C22_NormalizedAtLeastOne ==
    (norm.parsed /\ norm.normalized # NoneVal) => norm.normalized >= 1

C22_RouteDirectionsAtLeastOne ==
    (norm.parsed /\ norm.by = "route_directions" /\ norm.duration_seconds # NoneVal)
        => norm.duration_seconds >= 1

\* A pedestrian route of one metre whose reply carries no duration
C22_PedestrianZeroSeconds ==
    /\ norm.parsed
    /\ norm.by = "route_directions_by_type"
    /\ norm.route_type = "pedestrian"
    /\ norm.raw.kind = "None"
    /\ norm.distance_km = 1
    /\ norm.duration_seconds = 0

----------------------------------------------------------------------------
(* gomap.search_objects_smart and the three searches it chains.  A result is
   identified by its id; the geocode cache holds nothing for the term when the
   call starts, and within one call no cache key is read after it is written. *)

SearchLimits == {1, 2, 10}

Min2(a, b) == IF a < b THEN a ELSE b

\* list[:n]
Take(list, n) == SubSeq(list, 1, Min2(Len(list), n))

\* What _post gives a search: an exception, a body with success False, or rows
DistanceReplies ==
    [kind : {"raise", "fail"}, rows : {<<>>}] \cup [kind : {"rows"}, rows : {<<>>, <<5>>, <<5, 6, 7>>}]
ExactReplies ==
    [kind : {"raise", "fail"}, rows : {<<>>}]
    \cup [kind : {"rows"}, rows : {<<>>, <<1>>, <<1, 2>>, <<1, 2, 3>>}]
FuzzyReplies ==
    [kind : {"raise", "fail"}, rows : {<<>>}]
    \cup [kind : {"rows"}, rows : {<<>>, <<1>>, <<4>>, <<1, 4>>}]

\* search_objects(term, limit): one searchObj request
SearchObjects(reply, limit) == Take(reply.rows, Max2(1, Min2(limit, 10)))

\* for fuzzy_result in fuzzy_results: append it unless its id was seen
RECURSIVE MergeUnseen(_, _)
MergeUnseen(results, fuzzy_results) ==
    IF fuzzy_results = <<>> THEN results
    ELSE LET seen_ids == {results[i] : i \in DOMAIN results}
             first == Head(fuzzy_results)
         IN MergeUnseen(IF first \in seen_ids THEN results ELSE Append(results, first),
                        Tail(fuzzy_results))

\* if use_fuzzy_fallback and len(results) < min(3, limit): ... ; return results[:limit]
FuzzyGate(sr, results) ==
    IF sr.use_fuzzy_fallback /\ Len(results) < Min2(3, sr.limit)
    THEN [sr EXCEPT !.pc = "fuzzy", !.results = results]
    ELSE [sr EXCEPT !.pc = "returned", !.results = Take(results, sr.limit)]

\* search_objects_smart once its exact search has returned
AfterExact(sr, results) ==
    IF Len(results) >= Min2(3, sr.limit)
    THEN [sr EXCEPT !.pc = "returned", !.results = results]
    ELSE FuzzyGate(sr, results)

\* search_objects_smart once search_objects_with_distance has returned
AfterDistance(sr, results) ==
    IF Len(results) >= Min2(3, sr.limit)
    THEN [sr EXCEPT !.pc = "returned", !.results = results]
    ELSE IF results = <<>>
    THEN [sr EXCEPT !.pc = "exact", !.results = results]
    ELSE FuzzyGate(sr, results)

InitSearchInputs ==
    \E limit \in SearchLimits, origin, fuzzy \in BOOLEAN :
        search = [SearchIdle EXCEPT !.pc = IF origin THEN "distance" ELSE "exact",
                                    !.limit = limit, !.use_fuzzy_fallback = fuzzy]

\* search_objects_with_distance: the searchObjWithDistance request
DistanceRequest(reply) ==
    /\ search.pc = "distance"
    /\ LET sr == [search EXCEPT !.requests = Append(@, "searchObjWithDistance"),
                                !.invoked = Append(@, "search_objects_with_distance"),
                                !.distance_reply = reply.kind]
       IN search' = IF reply.kind = "rows"
                    THEN AfterDistance(sr, Take(reply.rows, Max2(1, Min2(sr.limit, 50))))
                    ELSE [sr EXCEPT !.pc = "distance_fallback"]
    /\ UNCHANGED <<now, breakerVars, cacheVars, concVars, etaVars, norm, db, limiter, intent>>

\* search_objects_with_distance falls back to search_objects
DistanceFallbackExact(reply) ==
    /\ search.pc = "distance_fallback"
    /\ LET results == SearchObjects(reply, Max2(1, Min2(search.limit, 50)))
           sr == [search EXCEPT !.requests = Append(@, "searchObj"),
                                !.invoked = Append(@, "search_objects"),
                                !.exact_results = results]
       IN search' = AfterDistance(sr, results)
    /\ UNCHANGED <<now, breakerVars, cacheVars, concVars, etaVars, norm, db, limiter, intent>>

\* search_objects_smart's own exact search
ExactSearch(reply) ==
    /\ search.pc = "exact"
    /\ LET results == SearchObjects(reply, search.limit)
           sr == [search EXCEPT !.requests = Append(@, "searchObj"),
                                !.invoked = Append(@, "search_objects"),
                                !.exact_results = results]
       IN search' = AfterExact(sr, results)
    /\ UNCHANGED <<now, breakerVars, cacheVars, concVars, etaVars, norm, db, limiter, intent>>

\* search_objects_fuzzy, the merge of its results, and the return
FuzzySearch(reply) ==
    /\ search.pc = "fuzzy"
    /\ LET fuzzy_limit == Max2(1, Min2(search.limit - Len(search.results), 20))
           merged == MergeUnseen(search.results, Take(reply.rows, fuzzy_limit))
       IN search' = [search EXCEPT !.pc = "returned",
                                   !.requests = Append(@, "makeSearchCitySettlementFuzzy"),
                                   !.invoked = Append(@, "search_objects_fuzzy"),
                                   !.results = Take(merged, search.limit)]
    /\ UNCHANGED <<now, breakerVars, cacheVars, concVars, etaVars, norm, db, limiter, intent>>

NextSearch ==
    \/ \E reply \in DistanceReplies : DistanceRequest(reply)
    \/ \E reply \in ExactReplies : DistanceFallbackExact(reply)
    \/ \E reply \in ExactReplies : ExactSearch(reply)
    \/ \E reply \in FuzzyReplies : FuzzySearch(reply)

InitSearch == InitCore /\ InitNormIdle /\ InitSearchInputs /\ InitDb /\ InitLimiter /\ InitIntent

SpecSearch == InitSearch /\ [][NextSearch]_vars


\* C23: in search_objects_smart called with an origin and fuzzy fallback enabled,
\* when the distance-aware request reports failure and the exact search then
\* returns at least one result, exactly two provider requests are issued, in the
\* order distance, exact; the fuzzy search is not invoked and the exact results
\* are returned.
C23_DistanceThenExactOnly ==
    (/\ search.pc = "returned"
     /\ search.use_fuzzy_fallback
     /\ search.distance_reply = "fail"
     /\ Len(search.exact_results) >= 1)
    => /\ search.requests = <<"searchObjWithDistance", "searchObj">>
       /\ search.invoked = <<"search_objects_with_distance", "search_objects">>
       /\ search.results = search.exact_results

\* The same holds when the exact search that follows the failed distance request
\* returns at least min(3, limit) results
C23_HoldsForDecentExactResults ==
    [][(/\ search.pc = "distance_fallback"
        /\ search.use_fuzzy_fallback
        /\ search.distance_reply = "fail"
        /\ Len(search'.exact_results) >= Min2(3, search.limit))
       => /\ search'.pc = "returned"
          /\ search'.requests = <<"searchObjWithDistance", "searchObj">>
          /\ search'.invoked = <<"search_objects_with_distance", "search_objects">>
          /\ search'.results = search'.exact_results]_vars

\* One exact result under the default limit: a third request goes to the fuzzy search
C23_FuzzyInvokedAfterOneExactResult ==
    /\ search.pc = "returned"
    /\ search.limit = 10
    /\ search.use_fuzzy_fallback
    /\ search.distance_reply = "fail"
    /\ search.exact_results = <<1>>
    /\ search.requests = <<"searchObjWithDistance", "searchObj", "makeSearchCitySettlementFuzzy">>
    /\ search.results = <<1>>

----------------------------------------------------------------------------
(* storage.Database: reservations of one restaurant, and availability_for_day over
   them.  A time is a count of half seconds since 10:00 of the day. *)

MaxReservations == 2

INTERVAL == 3600
RES_DURATION == 10800
LastSlot == 23

\* Three tables of a seeded restaurant, in floor-plan order (capacities as seeded)
Tables == <<[id |-> "t1", capacity |-> 2], [id |-> "t2", capacity |-> 6],
            [id |-> "t3", capacity |-> 4]>>

TableIds == {Tables[i].id : i \in DOMAIN Tables}
Capacity(tid) == Tables[CHOOSE i \in DOMAIN Tables : Tables[i].id = tid].capacity

RequestedTables == {"None", "t1", "t3", "t9"}
PartySizes == {3, 7}
RequestedTimes == {<<0, 10800>>, <<3600, 14400>>, <<10800, 21600>>, <<10801, 14400>>,
                   <<3600, 3600>>}
Statuses == {"booked", "cancelled", "seated"}

\* _iso: isoformat(timespec="seconds") drops the fraction of a second
Iso(t) == t - (t % 2)

OverlapOrTouch(a_start, a_end, b_start, b_end) == ~(a_end < b_start \/ b_end < a_start)

\* Database._overlap
Overlap(a_start, a_end, b_start, b_end) == ~(a_end <= b_start \/ b_end <= a_start)

\* The table create_reservation picks when the request names none: the first of the
\* tables sorted by capacity that fits the party, else the last of them
AutoPick(party_size) ==
    LET fitting == {i \in DOMAIN Tables : Tables[i].capacity >= party_size}
        before(i, j) == \/ Tables[i].capacity < Tables[j].capacity
                        \/ Tables[i].capacity = Tables[j].capacity /\ i <= j
    IN IF fitting # {}
       THEN Tables[CHOOSE i \in fitting : \A j \in fitting : before(i, j)].id
       ELSE IF Tables # <<>>
       THEN Tables[CHOOSE i \in DOMAIN Tables : \A j \in DOMAIN Tables : before(j, i)].id
       ELSE "None"

\* conflict check (booked only)
Conflict(reservations, table_id, start, end) ==
    \E id \in DOMAIN reservations :
        LET r == reservations[id] IN
        /\ r.status = "booked"
        /\ ~(table_id # "None" /\ r.table_id # "None" /\ r.table_id # table_id)
        /\ Overlap(start, end, r.start, r.end)

\* The status code create_reservation answers with
CreateCode(reservations, table_id, party_size, start, end) ==
    IF party_size < 1 \/ end <= start THEN 422
    ELSE IF table_id # "None" /\ table_id \notin TableIds THEN 422
    ELSE IF table_id # "None" /\ Capacity(table_id) < party_size THEN 422
    ELSE IF Conflict(reservations, IF table_id # "None" THEN table_id ELSE AutoPick(party_size),
                     start, end) THEN 409
    ELSE 201

\* Database.create_reservation
CreateReservation(table_id, party_size, start, end) ==
    /\ db.ids < MaxReservations
    /\ LET code == CreateCode(db.reservations, table_id, party_size, start, end)
           assigned == IF table_id # "None" THEN table_id ELSE AutoPick(party_size)
           new_id == db.ids + 1
           rec == [table_id |-> assigned, party_size |-> party_size, start |-> Iso(start),
                   end |-> Iso(end), status |-> "booked"]
           call == [op |-> "create", code |-> code, id |-> 0, table_id |-> table_id,
                    party_size |-> party_size, start |-> start, end |-> end]
       IN db' = IF code = 201
                THEN [reservations |-> [i \in DOMAIN db.reservations \cup {new_id} |->
                                           IF i = new_id THEN rec ELSE db.reservations[i]],
                      ids |-> new_id,
                      last |-> [call EXCEPT !.id = new_id]]
                ELSE [db EXCEPT !.last = call]
    /\ UNCHANGED <<now, breakerVars, cacheVars, concVars, etaVars, norm, search, limiter, intent>>

\* Database.set_status
SetStatus(resid, status) ==
    /\ LET call == [NoDbCall EXCEPT !.op = "set_status", !.id = resid]
       IN db' = IF resid \notin DOMAIN db.reservations
                THEN [db EXCEPT !.last = [call EXCEPT !.code = 404]]
                ELSE IF status \notin {"booked", "cancelled"}
                THEN [db EXCEPT !.last = [call EXCEPT !.code = 422]]
                ELSE [db EXCEPT !.reservations[resid].status = status,
                                !.last = [call EXCEPT !.code = 200]]
    /\ UNCHANGED <<now, breakerVars, cacheVars, concVars, etaVars, norm, search, limiter, intent>>

\* Database.cancel_reservation: hard delete
CancelReservation(resid) ==
    /\ LET call == [NoDbCall EXCEPT !.op = "delete", !.id = resid]
       IN db' = IF resid \notin DOMAIN db.reservations
                THEN [db EXCEPT !.last = [call EXCEPT !.code = 404]]
                ELSE [db EXCEPT !.reservations = [i \in DOMAIN db.reservations \ {resid} |->
                                                     db.reservations[i]],
                                !.last = [call EXCEPT !.code = 200]]
    /\ UNCHANGED <<now, breakerVars, cacheVars, concVars, etaVars, norm, search, limiter, intent>>

NextDb ==
    \/ \E table_id \in RequestedTables, party_size \in PartySizes, times \in RequestedTimes :
          CreateReservation(table_id, party_size, times[1], times[2])
    \/ \E resid \in 1..MaxReservations, status \in Statuses : SetStatus(resid, status)
    \/ \E resid \in 1..MaxReservations : CancelReservation(resid)

SpecDb == Init /\ [][NextDb]_vars


\* A request that names a table of the restaurant which seats the party, with end after start
ValidTableRequest(call) ==
    /\ call.op = "create"
    /\ call.table_id \in TableIds
    /\ call.party_size >= 1
    /\ Capacity(call.table_id) >= call.party_size
    /\ call.end > call.start

\* Some booked reservation on the table overlaps [start, end)
BookedOverlapOn(reservations, table_id, start, end) ==
    \E id \in DOMAIN reservations :
        /\ reservations[id].status = "booked"
        /\ reservations[id].table_id = table_id
        /\ ~(end <= reservations[id].start \/ reservations[id].end <= start)

\* C24: create_reservation for a restaurant and table is rejected with 409 when the
\* requested interval overlaps the interval of an existing booked reservation on
\* that table, and is accepted when the intervals only touch or when the only
\* overlapping reservations are cancelled; a rejected request leaves the stored
\* reservations unchanged.
C24_OverlapRejectedElseAccepted ==
    [][(db' # db /\ ValidTableRequest(db'.last)) =>
        LET call == db'.last IN
        IF BookedOverlapOn(db.reservations, call.table_id, call.start, call.end)
        THEN call.code = 409 /\ db'.reservations = db.reservations
        ELSE /\ call.code = 201
             /\ DOMAIN db'.reservations = DOMAIN db.reservations \cup {call.id}
             /\ call.id \notin DOMAIN db.reservations
             /\ db'.reservations[call.id].status = "booked"
             /\ db'.reservations[call.id].table_id = call.table_id
             /\ \A id \in DOMAIN db.reservations : db'.reservations[id] = db.reservations[id]
      ]_vars

\* A request rejected with 409 while a booked reservation overlaps it on its table
C24_Witness ==
    /\ ValidTableRequest(db.last)
    /\ db.last.code = 409
    /\ BookedOverlapOn(db.reservations, db.last.table_id, db.last.start, db.last.end)

\* A request accepted next to a booked reservation that ends when it starts
C24_WitnessTouching ==
    /\ ValidTableRequest(db.last)
    /\ db.last.code = 201
    /\ \E id \in DOMAIN db.reservations :
          /\ id # db.last.id
          /\ db.reservations[id].status = "booked"
          /\ db.reservations[id].table_id = db.last.table_id
          /\ db.reservations[id].end = db.last.start

\* A request accepted over a cancelled reservation of the same table and time
C24_WitnessOverCancelled ==
    /\ ValidTableRequest(db.last)
    /\ db.last.code = 201
    /\ \E id \in DOMAIN db.reservations :
          /\ id # db.last.id
          /\ db.reservations[id].status = "cancelled"
          /\ db.reservations[id].table_id = db.last.table_id
          /\ db.reservations[id].start = db.last.start
          /\ db.reservations[id].end = db.last.end


\* C26: when create_reservation is called without a table_id, the table assigned
\* to the reservation has capacity >= party_size and its capacity is the minimum
\* among the restaurant's tables whose capacity is >= party_size, for every party
\* size that is accepted.
C26_SmallestFittingTable ==
    (/\ db.last.op = "create"
     /\ db.last.code = 201
     /\ db.last.table_id = "None"
     /\ db.last.id \in DOMAIN db.reservations)
    => LET assigned == db.reservations[db.last.id].table_id IN
       /\ assigned \in TableIds
       /\ Capacity(assigned) >= db.last.party_size
       /\ \A t \in TableIds :
             Capacity(t) >= db.last.party_size => Capacity(assigned) <= Capacity(t)

\* The same, for a party that some table of the restaurant seats
C26_HoldsWhenSomeTableFits ==
    (/\ db.last.op = "create"
     /\ db.last.code = 201
     /\ db.last.table_id = "None"
     /\ db.last.id \in DOMAIN db.reservations
     /\ \E t \in TableIds : Capacity(t) >= db.last.party_size)
    => LET assigned == db.reservations[db.last.id].table_id IN
       /\ Capacity(assigned) >= db.last.party_size
       /\ \A t \in TableIds :
             Capacity(t) >= db.last.party_size => Capacity(assigned) <= Capacity(t)

\* A party of seven accepted onto the table for six
C26_OversizePartyAccepted ==
    /\ db.last.op = "create"
    /\ db.last.code = 201
    /\ db.last.table_id = "None"
    /\ db.last.party_size = 7
    /\ db.last.id \in DOMAIN db.reservations
    /\ db.reservations[db.last.id].table_id = "t2"

\* C27: after any sequence of create_reservation, set_status(cancelled),
\* set_status(booked) and cancel_reservation calls, no two reservations with
\* status booked for the same restaurant and the same table have overlapping
\* time intervals.
C27_NoDoubleBooking ==
    \A a, b \in DOMAIN db.reservations :
        (/\ a # b
         /\ db.reservations[a].status = "booked"
         /\ db.reservations[b].status = "booked"
         /\ db.reservations[a].table_id = db.reservations[b].table_id)
        => \/ db.reservations[a].end <= db.reservations[b].start
           \/ db.reservations[b].end <= db.reservations[a].start

\* Only a set_status(booked) step takes the store from no double booking to one
C27_OnlyConfirmDoubleBooks ==
    [][(C27_NoDoubleBooking /\ ~C27_NoDoubleBooking')
       => (db'.last.op = "set_status" /\ db'.last.code = 200
           /\ db.reservations[db'.last.id].status = "cancelled"
           /\ db'.reservations[db'.last.id].status = "booked")]_vars

\* Two booked reservations of one table at the same time, after a confirm
C27_ConfirmDoubleBooked ==
    /\ db.last.op = "set_status"
    /\ db.last.code = 200
    /\ DOMAIN db.reservations = {1, 2}
    /\ db.reservations[1].status = "booked" /\ db.reservations[2].status = "booked"
    /\ db.reservations[1].table_id = db.reservations[2].table_id
    /\ db.reservations[1].start = db.reservations[2].start
    /\ db.reservations[1].end = db.reservations[2].end


----------------------------------------------------------------------------
(* availability.availability_for_day over the stored reservations *)

\* Database.eligible_tables: the restaurant's tables that seat the party
EligibleTables(party_size) ==
    LET Fits(t) == t.capacity >= party_size IN SelectSeq(Tables, Fits)

\* Slots start every INTERVAL from opening until RES_DURATION before closing
SlotStarts == {k * INTERVAL : k \in 0..LastSlot}

AvailableTableIdsCountingCancelled(reservations, party_size, cur) ==
    LET slot_end == cur + RES_DURATION
        Taken(t) == \E id \in DOMAIN reservations :
                       LET r == reservations[id] IN
                       /\ r.table_id \in {t.id, "None"}
                       /\ ~(slot_end <= r.start \/ cur >= r.end)
        Free(t) == ~Taken(t)
        free == SelectSeq(EligibleTables(party_size), Free)
    IN [i \in DOMAIN free |-> free[i].id]

\* available_table_ids of the slot that starts at cur
AvailableTableIds(reservations, party_size, cur) ==
    LET slot_end == cur + RES_DURATION
        Taken(t) == \E id \in DOMAIN reservations :
                       LET r == reservations[id] IN
                       /\ r.status = "booked"
                       /\ r.table_id \in {t.id, "None"}
                       /\ ~(slot_end <= r.start \/ cur >= r.end)
        Free(t) == ~Taken(t)
        free == SelectSeq(EligibleTables(party_size), Free)
    IN [i \in DOMAIN free |-> free[i].id]

\* The slots a reservation overlaps
SlotsOverlapping(r) == {cur \in SlotStarts : ~(cur + RES_DURATION <= r.start \/ cur >= r.end)}

\* The step stores a new booking
BookingCreated == db' # db /\ db'.last.op = "create" /\ db'.last.code = 201

\* The step soft-cancels or hard-deletes a booked reservation
BookingReleased ==
    /\ db' # db
    /\ db'.last.code = 200
    /\ db'.last.id \in DOMAIN db.reservations
    /\ db.reservations[db'.last.id].status = "booked"
    /\ \/ db'.last.op = "delete"
       \/ db'.last.op = "set_status" /\ db'.reservations[db'.last.id].status = "cancelled"

\* The store without one reservation: what it was before that reservation was created
StoreWithout(reservations, resid) == [i \in DOMAIN reservations \ {resid} |-> reservations[i]]

\* The slot's availability is back to what it is without the released reservation
Restored ==
    BookingReleased =>
        \A q \in PartySizes, cur \in SlotStarts :
            AvailableTableIds(db'.reservations, q, cur)
                = AvailableTableIds(StoreWithout(db.reservations, db'.last.id), q, cur)

C25_WitnessReleased ==
    /\ db.last.op = "set_status"
    /\ db.last.code = 200
    /\ db.last.id \in DOMAIN db.reservations
    /\ db.reservations[db.last.id].status = "cancelled"
    /\ LET r == db.reservations[db.last.id] IN
       /\ r.start \in SlotStarts
       /\ r.table_id \in {AvailableTableIds(db.reservations, r.party_size, r.start)[i] :
                          i \in DOMAIN AvailableTableIds(db.reservations, r.party_size, r.start)}


----------------------------------------------------------------------------
(* Retry executor and breaker together, checked under SpecRetry *)

\* The request in progress has ended after GOMAP_RETRY_ATTEMPTS + 1 attempts that
\* all failed with a network error
AllAttemptsFailed(r) ==
    /\ r.pc = "done"
    /\ Len(r.log) = GOMAP_RETRY_ATTEMPTS + 1
    /\ \A i \in DOMAIN r.log : r.log[i] \in Errors

\* C28: each failed attempt inside the retry loop is recorded as a separate failure
\* by the gomap_api breaker, so with the default settings (threshold 3, 2 retries)
\* a single request whose three attempts all fail leaves the breaker open, and the
\* next request to any GoMap endpoint within the cooldown is rejected with
\* CircuitOpenError without a network attempt.
C28_OneFailedRequestOpensBreaker ==
    [][/\ (req.pc = "call" /\ req' # req /\ req'.log[Len(req'.log)] \in Errors)
            => breakers'["gomap_api"].failure_count = breakers["gomap_api"].failure_count + 1
       /\ AllAttemptsFailed(req')
            => /\ breakers'["gomap_api"].state = "open"
               /\ consec'["gomap_api"] >= GOMAP_CIRCUIT_BREAKER_THRESHOLD
       /\ (/\ AllAttemptsFailed(req)
           /\ requests' = requests + 1
           /\ now - lastCall.at < GOMAP_CIRCUIT_BREAKER_COOLDOWN_SECONDS)
            => req'.startedOpen
       /\ (req.startedOpen /\ req.pc = "call" /\ req' # req)
            => /\ req'.pc = "done"
               /\ req'.result = "CircuitOpenError"
               /\ req'.log = <<"CircuitOpenError">>
               /\ req'.sleeps = <<>>
               /\ lastCall'.name = "gomap_api"
               /\ ~lastCall'.invoked
      ]_vars

\* The second request, made 299 seconds after the first one's three failures, rejected
C28_Witness ==
    /\ requests = 2
    /\ consec["gomap_api"] = GOMAP_RETRY_ATTEMPTS + 1
    /\ req.startedOpen
    /\ req.pc = "done"
    /\ req.result = "CircuitOpenError"
    /\ ~lastCall.invoked
    /\ lastCall.at - lastCall.openedBefore = GOMAP_CIRCUIT_BREAKER_COOLDOWN_SECONDS - 1

\* The same on the traffic endpoint
C28_WitnessTraffic ==
    /\ C28_Witness
    /\ req.path = TrafficPath


----------------------------------------------------------------------------
(* utils.RateLimiter.dispatch with rate limiting enabled.  dispatch runs on one
   event loop and awaits nothing between reading the clock and leaving the
   critical section, so a request's admission is one step; requests overlap in
   their handlers (await call_next).  The limit and the window are configured
   values, scaled down here. *)

RATE_LIMIT_REQUESTS == 2
RATE_LIMIT_WINDOW_SECONDS == 3
MaxClock == 4
MaxHandling == 3

\* while bucket and bucket[0] <= cutoff: bucket.popleft()
RECURSIVE Pruned(_, _)
Pruned(bucket, cutoff) ==
    IF bucket # <<>> /\ Head(bucket) <= cutoff THEN Pruned(Tail(bucket), cutoff) ELSE bucket

AdmitsAtLimit(bucket) == ~(Len(bucket) > RATE_LIMIT_REQUESTS)

\* if len(bucket) >= limit: answer 429
Admits(bucket) == ~(Len(bucket) >= RATE_LIMIT_REQUESTS)

\* Requests that are in their handlers
Handling == limiter.handling["10.0.0.1"] + limiter.handling["10.0.0.2"]

\* dispatch, up to the call of the handler or the 429 response
Dispatch(c) ==
    LET t == limiter.clock
        bucket == Pruned(limiter.history[c], t - RATE_LIMIT_WINDOW_SECONDS)
    IN /\ IF Admits(bucket)
          THEN /\ Handling < MaxHandling
               /\ limiter' = [limiter EXCEPT
                      !.history[c] = Append(bucket, t),
                      !.admitted[c] = Append(@, t),
                      !.handling[c] = @ + 1,
                      !.last = [client |-> c, code |-> 200]]
          ELSE limiter' = [limiter EXCEPT
                      !.history[c] = bucket,
                      !.last = [client |-> c, code |-> 429]]
       /\ UNCHANGED <<now, breakerVars, cacheVars, concVars, etaVars, norm, search, db, intent>>

\* the handler returns and dispatch sets the response headers
HandlerDone(c) ==
    /\ limiter.handling[c] > 0
    /\ limiter' = [limiter EXCEPT !.handling[c] = @ - 1]
    /\ UNCHANGED <<now, breakerVars, cacheVars, concVars, etaVars, norm, search, db, intent>>

\* time.monotonic() advances.  The record of admissions keeps those that can
\* still share a window with a later one.
ClockTick ==
    /\ limiter.clock < MaxClock
    /\ LET Recent(t) == t > limiter.clock + 1 - RATE_LIMIT_WINDOW_SECONDS
       IN limiter' = [limiter EXCEPT
              !.clock = @ + 1,
              !.admitted = [c \in Clients |-> SelectSeq(limiter.admitted[c], Recent)]]
    /\ UNCHANGED <<now, breakerVars, cacheVars, concVars, etaVars, norm, search, db, intent>>

NextLimiter ==
    \/ \E c \in Clients : Dispatch(c)
    \/ \E c \in Clients : HandlerDone(c)
    \/ ClockTick

SpecLimiter == Init /\ [][NextLimiter]_vars

\* Admissions of client c with a time stamp in [t, t + RATE_LIMIT_WINDOW_SECONDS)
AdmittedInWindow(c, t) ==
    Cardinality({i \in DOMAIN limiter.admitted[c] :
                    /\ t <= limiter.admitted[c][i]
                    /\ limiter.admitted[c][i] < t + RATE_LIMIT_WINDOW_SECONDS})

\* C29: with rate limiting enabled, for every client identifier and under any
\* interleaving of concurrent requests, at most RATE_LIMIT_REQUESTS requests are
\* admitted within any window of RATE_LIMIT_WINDOW_SECONDS; a request over the
\* limit is answered 429 without reaching the handler and is not recorded in the
\* identifier's history, so rejected requests never prolong the block.
C29_AtMostLimitPerWindow ==
    [][/\ \A c \in Clients, t \in 0..MaxClock :
             AdmittedInWindow(c, t)' <= RATE_LIMIT_REQUESTS
       /\ \A c \in Clients :
             /\ \A i \in DOMAIN limiter'.history[c] :
                   limiter'.history[c][i] > limiter'.clock - RATE_LIMIT_WINDOW_SECONDS
                     => \E j \in DOMAIN limiter'.admitted[c] :
                           limiter'.admitted[c][j] = limiter'.history[c][i]
             /\ (limiter'.last # limiter.last /\ limiter'.last.client = c
                 /\ limiter'.last.code = 429)
                  => /\ limiter'.handling = limiter.handling
                     /\ limiter'.admitted = limiter.admitted
                     /\ Len(limiter'.history[c]) <= Len(limiter.history[c])
                     /\ AdmittedInWindow(c, limiter.clock - RATE_LIMIT_WINDOW_SECONDS + 1)
                           = RATE_LIMIT_REQUESTS
      ]_vars

\* A client answered 429 while its two admitted requests are still in their
\* handlers and the other client is being served
C29_Witness ==
    /\ limiter.last.code = 429
    /\ \E c \in Clients :
          /\ limiter.last.client = c
          /\ limiter.handling[c] = RATE_LIMIT_REQUESTS
          /\ Len(limiter.history[c]) = RATE_LIMIT_REQUESTS
          /\ \E d \in Clients \ {c} : limiter.handling[d] > 0 /\ limiter.history[d] # <<>>

\* A client admitted again once its oldest admission is a full window old
C29_WitnessReadmitted ==
    /\ limiter.last.code = 200
    /\ \E c \in Clients :
          /\ limiter.last.client = c
          /\ Len(limiter.history[c]) = RATE_LIMIT_REQUESTS
          /\ limiter.history[c][1] < limiter.clock
          /\ limiter.history[c][RATE_LIMIT_REQUESTS] = limiter.clock
          /\ limiter.clock >= RATE_LIMIT_WINDOW_SECONDS


----------------------------------------------------------------------------
(* llm_intent.parse_intent and its failure circuit.  streak and failed_at record
   the failed LLM calls since the last success and the time of the latest one. *)

MAX_FAILURES == 3
COOLDOWN_SECONDS == 300
MaxIntentCalls == 5
MaxIntentClock == 610

\* What a call meets: an empty prompt, no OPENAI_API_KEY, or the LLM call's outcome
LlmFailures == {"OpenAIError", "empty_response", "invalid_json", "invalid_format"}
IntentOutcomes == {"empty_prompt", "no_api_key", "ok", "other_exception"} \cup LlmFailures

CircuitOpenAtDeadline(i) == i.failure_count >= MAX_FAILURES /\ i.disabled_until >= i.clock

\* _circuit_open
CircuitOpen(i) == i.failure_count >= MAX_FAILURES /\ i.disabled_until > i.clock

\* _register_failure
RegisterFailure(i) ==
    [i EXCEPT !.failure_count = @ + 1,
              !.disabled_until = IF i.failure_count + 1 >= MAX_FAILURES
                                 THEN i.clock + COOLDOWN_SECONDS ELSE @,
              !.streak = @ + 1,
              !.failed_at = i.clock]

\* _register_success
RegisterSuccess(i) == [i EXCEPT !.failure_count = 0, !.disabled_until = 0, !.streak = 0]

\* parse_intent; the LLM call, when made, takes d seconds
ParseIntent(outcome, d) ==
    /\ intent.calls < MaxIntentCalls
    /\ intent.clock + d <= MaxIntentClock
    /\ LET called == [intent EXCEPT !.calls = @ + 1]
           after == [called EXCEPT !.clock = @ + d]
           Raised(i, o, invoked) ==
               [i EXCEPT !.last = [outcome |-> o, invoked |-> invoked,
                                   raised |-> "IntentUnavailable"]]
       IN intent' =
            IF outcome = "empty_prompt" THEN Raised(called, outcome, FALSE)
            ELSE IF CircuitOpen(intent) THEN Raised(called, "cooling_down", FALSE)
            ELSE IF outcome = "no_api_key" THEN Raised(called, outcome, FALSE)
            ELSE IF outcome = "other_exception"
            THEN [after EXCEPT !.last = [outcome |-> outcome, invoked |-> TRUE,
                                         raised |-> "Exception"]]
            ELSE IF outcome \in LlmFailures THEN Raised(RegisterFailure(after), outcome, TRUE)
            ELSE [RegisterSuccess(after) EXCEPT
                      !.last = [outcome |-> outcome, invoked |-> TRUE, raised |-> "none"]]
    /\ UNCHANGED <<now, breakerVars, cacheVars, concVars, etaVars, norm, search, db, limiter>>

\* Time passing between two calls
IntentWait(d) ==
    /\ intent.clock + d <= MaxIntentClock
    /\ intent' = [intent EXCEPT !.clock = @ + d]
    /\ UNCHANGED <<now, breakerVars, cacheVars, concVars, etaVars, norm, search, db, limiter>>

NextIntent ==
    \/ \E outcome \in IntentOutcomes, d \in {0, 1} : ParseIntent(outcome, d)
    \/ \E d \in {COOLDOWN_SECONDS - 1, COOLDOWN_SECONDS} : IntentWait(d)

SpecIntent == Init /\ [][NextIntent]_vars

\* MAX_FAILURES or more LLM calls in a row have failed, the latest less than
\* COOLDOWN_SECONDS ago
CoolingDown(i) == i.streak >= MAX_FAILURES /\ i.clock < i.failed_at + COOLDOWN_SECONDS

\* C30: after MAX_FAILURES (3) consecutive parse_intent failures, every parse_intent
\* call during the following COOLDOWN_SECONDS raises IntentUnavailable without
\* invoking the LLM client; after the cooldown calls are attempted again, a
\* successful call resets the failure count to 0 and clears the cooldown, and a
\* failed call immediately starts a new full cooldown.
C30_CooldownAfterThreeFailures ==
    [][(intent'.calls = intent.calls + 1) =>
        /\ intent'.failure_count = intent'.streak
        /\ CoolingDown(intent)
             => /\ ~intent'.last.invoked
                /\ intent'.last.raised = "IntentUnavailable"
                /\ intent'.failure_count = intent.failure_count
                /\ intent'.disabled_until = intent.disabled_until
        /\ (/\ intent.streak >= MAX_FAILURES
            /\ ~CoolingDown(intent)
            /\ intent'.last.outcome \notin {"empty_prompt", "no_api_key"})
             => intent'.last.invoked
        /\ (intent'.last.invoked /\ intent'.last.outcome = "ok")
             => /\ intent'.failure_count = 0
                /\ intent'.disabled_until = 0
                /\ ~CircuitOpen(intent')
        /\ (/\ intent'.last.invoked
            /\ intent'.last.outcome \in LlmFailures
            /\ intent.streak >= MAX_FAILURES - 1)
             => /\ intent'.disabled_until = intent'.clock + COOLDOWN_SECONDS
                /\ CoolingDown(intent')
                /\ CircuitOpen(intent')
      ]_vars

\* A call refused in the last second of the cooldown that three failures started
C30_Witness ==
    /\ intent.streak = MAX_FAILURES
    /\ intent.last.outcome = "cooling_down"
    /\ ~intent.last.invoked
    /\ intent.clock = intent.failed_at + COOLDOWN_SECONDS - 1

\* A call made when the cooldown has just ended fails and starts a new one
C30_WitnessNewCooldown ==
    /\ intent.streak = MAX_FAILURES + 1
    /\ intent.last.invoked
    /\ intent.disabled_until = intent.clock + COOLDOWN_SECONDS
    /\ intent.clock >= COOLDOWN_SECONDS

\* A call made after the cooldown succeeds and clears the circuit
C30_WitnessReset ==
    /\ intent.calls = MAX_FAILURES + 1
    /\ intent.last.outcome = "ok"
    /\ intent.failure_count = 0
    /\ intent.disabled_until = 0
    /\ intent.clock >= COOLDOWN_SECONDS

====
